---- MODULE Spec2Model ----
(***************************************************************************)
(* karrick/tparse: the duration-expression evaluators and the entry-point  *)
(* resolver.                                                               *)
(*                                                                         *)
(*   addDuration / calcDuration / ParseWithMap   src/tparse.go             *)
(*   AddDuration / ParseWithMap_v2               src/unnamed/part_005      *)
(*   AddDuration_000                             src/unnamed/part_000      *)
(*   ParseDict / ymd                             src/unnamed/part_001      *)
(*                                                                         *)
(* A Go string is a sequence of one-character strings.  Every slice the    *)
(* code takes falls on a rune boundary (the scanners only split at ASCII   *)
(* bytes), so byte offsets and rune offsets are not told apart.            *)
(*                                                                         *)
(* A time.Time is an instant and a location: [day, sec, nsec, loc], day    *)
(* counted from 1970-01-01 in UTC, loc "UTC" or "Local".                   *)
(* A time.Duration (int64 nanoseconds) and a float64 count of              *)
(* nanoseconds are both a record [s, n, f]: s seconds, n nanoseconds in    *)
(* 0..10^9-1 and f units of 1/Scale nanosecond in 0..Scale-1.  float64     *)
(* arithmetic is carried out exactly in decimal; a result the code would   *)
(* obtain through a rounded float64 operation is marked exact = FALSE.     *)
(***************************************************************************)
EXTENDS Integers, Sequences, FiniteSets, TLC

VARIABLES value, base, dict, layoutOK, order, now, op, out, locals, iter

vars == <<value, base, dict, layoutOK, order, now, op, out, locals, iter>>

(***************************************************************************)
(* Characters and strings                                                  *)
(***************************************************************************)
Digits == {"0", "1", "2", "3", "4", "5", "6", "7", "8", "9"}

DigitVal(c) ==
    CASE c = "0" -> 0 [] c = "1" -> 1 [] c = "2" -> 2 [] c = "3" -> 3
      [] c = "4" -> 4 [] c = "5" -> 5 [] c = "6" -> 6 [] c = "7" -> 7
      [] c = "8" -> 8 [] c = "9" -> 9

IsDigit(c) == c \in Digits

IsSign(c) == c \in {"+", "-"}

\* s[from:to] of Go, with 0-based offsets, from <= to <= len(s)
Slice(s, from, to) == SubSeq(s, from + 1, to)

\* s[n:] of Go
Drop(s, n) == SubSeq(s, n + 1, Len(s))

\* strings.HasPrefix(s, prefix)
HasPrefix(s, prefix) ==
    /\ Len(prefix) <= Len(s)
    /\ SubSeq(s, 1, Len(prefix)) = prefix

(***************************************************************************)
(* package time: calendar                                                  *)
(***************************************************************************)
NanosPerSecond == 1000000000

SecondsPerMinute == 60

SecondsPerHour == 60 * SecondsPerMinute

SecondsPerDay == 24 * SecondsPerHour

\* days from 1970-01-01 to the civil date (y, m, d), m in 1..12, any d
DaysFromCivil(y, m, d) ==
    LET yy  == IF m <= 2 THEN y - 1 ELSE y
        era == yy \div 400
        yoe == yy - era * 400
        mp  == IF m > 2 THEN m - 3 ELSE m + 9
        doy == (153 * mp + 2) \div 5 + d - 1
        doe == yoe * 365 + yoe \div 4 - yoe \div 100 + doy
    IN  era * 146097 + doe - 719468

\* the civil date of a day number
CivilFromDays(z) ==
    LET zz  == z + 719468
        era == zz \div 146097
        doe == zz - era * 146097
        yoe == (doe - doe \div 1460 + doe \div 36524 - doe \div 146096) \div 365
        doy == doe - (365 * yoe + yoe \div 4 - yoe \div 100)
        mp  == (5 * doy + 2) \div 153
        d   == doy - (153 * mp + 2) \div 5 + 1
        m   == IF mp < 10 THEN mp + 3 ELSE mp - 9
        y   == yoe + era * 400 + (IF m <= 2 THEN 1 ELSE 0)
    IN  [y |-> y, m |-> m, d |-> d]

\* time.Date(y, m, d, hh, mm, ss, 0, time.UTC)
Date(y, m, d, hh, mm, ss) ==
    [day |-> DaysFromCivil(y, m, d),
     sec |-> hh * SecondsPerHour + mm * SecondsPerMinute + ss,
     nsec |-> 0,
     loc |-> "UTC"]

\* the zero time.Time: 0001-01-01T00:00:00Z
ZeroTime == Date(1, 1, 1, 0, 0, 0)

\* time.Unix(sec, nsec), 0 <= nsec < 10^9: a time in time.Local
Unix(sec, nsec) ==
    [day |-> sec \div SecondsPerDay, sec |-> sec % SecondsPerDay, nsec |-> nsec,
     loc |-> "Local"]

\* time.Local: the zone of the process.  One change of the clocks, the one
\* of Europe/London on 2003-03-30 at 01:00 UTC, from UTC to UTC+1.
Local ==
    [day    |-> DaysFromCivil(2003, 3, 30),
     sec    |-> SecondsPerHour,
     before |-> 0,
     after  |-> SecondsPerHour]

\* the offset from UTC in force in loc at second sec (any integer) of day
Offset(loc, day, sec) ==
    IF loc = "UTC" THEN 0
    ELSE IF \/ day + sec \div SecondsPerDay < Local.day
            \/ /\ day + sec \div SecondsPerDay = Local.day
               /\ sec % SecondsPerDay < Local.sec
         THEN Local.before
         ELSE Local.after

\* the offset time.Date subtracts from a wall-clock reading (taken as if it
\* were UTC): the offset in force at the reading, unless the reading minus
\* that offset lies on the other side of the change, then the offset in force
\* there
DateOffset(loc, day, sec) ==
    IF Offset(loc, day, sec) # 0
       /\ Offset(loc, day, sec - Offset(loc, day, sec)) # Offset(loc, day, sec)
    THEN Offset(loc, day, sec - Offset(loc, day, sec))
    ELSE Offset(loc, day, sec)

\* the instant of the wall-clock reading (day, sec) in loc
FromWall(loc, day, sec, nsec) ==
    [day  |-> day + (sec - DateOffset(loc, day, sec)) \div SecondsPerDay,
     sec  |-> (sec - DateOffset(loc, day, sec)) % SecondsPerDay,
     nsec |-> nsec,
     loc  |-> loc]

\* the wall-clock reading of t in its location: the day and the second of it
WallDay(t) == t.day + (t.sec + Offset(t.loc, t.day, t.sec)) \div SecondsPerDay

WallSec(t) == (t.sec + Offset(t.loc, t.day, t.sec)) % SecondsPerDay

\* the civil date c shifted and renormalised, as a day number
ShiftDate(c, years, months, days) ==
    DaysFromCivil(c.y + years + ((c.m - 1) + months) \div 12,
                  (((c.m - 1) + months) % 12) + 1,
                  c.d + days)

\* t.AddDate(years, months, days): the date of t in its location is shifted
\* and renormalised by time.Date, the clock reading is kept
AddDate(t, years, months, days) ==
    FromWall(t.loc, ShiftDate(CivilFromDays(WallDay(t)), years, months, days),
             WallSec(t), t.nsec)

(***************************************************************************)
(* Quantities of nanoseconds                                               *)
(***************************************************************************)
\* decimal places carried below one unit (and below one nanosecond)
FracDigits == 3

RECURSIVE Pow10(_)
Pow10(k) == IF k = 0 THEN 1 ELSE 10 * Pow10(k - 1)

Scale == Pow10(FracDigits)

ZeroDur == [h |-> 0, s |-> 0, n |-> 0, f |-> 0]

\* normal form of h hours + s seconds + n nanoseconds + f/Scale nanoseconds:
\* the hours carry the sign, 0 <= s < 3600, 0 <= n < 10^9, 0 <= f < Scale
NormH(h, s, n, f) ==
    [h |-> h + (s + (n + f \div Scale) \div NanosPerSecond) \div SecondsPerHour,
     s |-> (s + (n + f \div Scale) \div NanosPerSecond) % SecondsPerHour,
     n |-> (n + f \div Scale) % NanosPerSecond,
     f |-> f % Scale]

Norm(s, n, f) == NormH(0, s, n, f)

DurAdd(a, b) == NormH(a.h + b.h, a.s + b.s, a.n + b.n, a.f + b.f)

DurNeg(a) == NormH(-a.h, -a.s, -a.n, -a.f)

\* a < b
DurLess(a, b) ==
    \/ a.h < b.h
    \/ a.h = b.h /\ a.s < b.s
    \/ a.h = b.h /\ a.s = b.s /\ a.n < b.n
    \/ a.h = b.h /\ a.s = b.s /\ a.n = b.n /\ a.f < b.f

\* math.MaxInt64 nanoseconds: 9223372036.854775807 s
MaxDuration == [h |-> 2562047, s |-> 2836, n |-> 854775807, f |-> 0]

\* math.MinInt64 nanoseconds: -9223372036.854775808 s
MinDuration == [h |-> -2562048, s |-> 763, n |-> 145224192, f |-> 0]

\* 2^64 nanoseconds: 18446744073.709551616 s
TwoTo64 == [h |-> 5124095, s |-> 2073, n |-> 709551616, f |-> 0]

\* the int64 that an int64 operation gives when its exact result is d: d
\* modulo 2^64, in [math.MinInt64, math.MaxInt64]
RECURSIVE Wrap64(_)
Wrap64(d) ==
    IF DurLess(MaxDuration, d) THEN Wrap64(DurAdd(d, DurNeg(TwoTo64)))
    ELSE IF DurLess(d, MinDuration) THEN Wrap64(DurAdd(d, TwoTo64))
    ELSE d

DurIsZero(a) == a = ZeroDur

\* time.Duration(x) of a float64 x: the fraction of a nanosecond is dropped,
\* toward zero
DurTrunc(a) ==
    IF a.h < 0 /\ a.f > 0 THEN NormH(a.h, a.s, a.n + 1, 0) ELSE NormH(a.h, a.s, a.n, 0)

\* t.Add(d)
Add(t, d) ==
    LET n1 == t.nsec + d.n
        s1 == t.sec + (d.h % 24) * SecondsPerHour + d.s + n1 \div NanosPerSecond
    IN  [day |-> t.day + d.h \div 24 + s1 \div SecondsPerDay,
         sec |-> s1 % SecondsPerDay,
         nsec |-> n1 % NanosPerSecond,
         loc |-> t.loc]

\* a unit of time: secs/per seconds (per > 1 only below one second)
UnitOf(secs, per) == [secs |-> secs, per |-> per]

Nanosecond == UnitOf(1, NanosPerSecond)

Microsecond == UnitOf(1, 1000000)

Millisecond == UnitOf(1, 1000)

Second == UnitOf(1, 1)

Minute == UnitOf(SecondsPerMinute, 1)

Hour == UnitOf(SecondsPerHour, 1)

\* k * u nanoseconds, k >= 0
DurMulInt(k, u) ==
    IF u.per = 1
    THEN NormH(k * (u.secs \div SecondsPerHour)
                   + (k \div SecondsPerHour) * (u.secs % SecondsPerHour),
               (k % SecondsPerHour) * (u.secs % SecondsPerHour), 0, 0)
    ELSE Norm((k * u.secs) \div u.per,
              ((k * u.secs) % u.per) * (NanosPerSecond \div u.per), 0)

\* (w + fr/Scale) * u nanoseconds, w >= 0 and 0 <= fr < Scale
DurMulFix(w, fr, u) ==
    LET npu == NanosPerSecond \div u.per
        sh  == u.secs \div Scale
        sl  == u.secs % Scale
        fp  == IF u.per = 1
               THEN Norm(sh * fr + (sl * fr) \div Scale,
                         ((sl * fr) % Scale) * (NanosPerSecond \div Scale), 0)
               ELSE IF npu >= Scale
                    THEN Norm(0, fr * (npu \div Scale), 0)
                    ELSE Norm(0, 0, fr * npu)
    IN  DurAdd(DurMulInt(w, u), fp)

(***************************************************************************)
(* package strconv, package time: the parsers the code calls               *)
(***************************************************************************)
RECURSIVE DigitsValue(_)
DigitsValue(ds) ==
    IF ds = <<>> THEN 0
    ELSE 10 * DigitsValue(SubSeq(ds, 1, Len(ds) - 1)) + DigitVal(ds[Len(ds)])

AllDigits(ds) == \A k \in 1..Len(ds) : IsDigit(ds[k])

\* strconv.Atoi(number): [ok, v]
Atoi(number) ==
    LET body == IF number # <<>> /\ IsSign(number[1]) THEN Tail(number) ELSE number
    IN  IF body # <<>> /\ AllDigits(body)
        THEN [ok |-> TRUE,
              v |-> IF number[1] = "-" THEN -DigitsValue(body) ELSE DigitsValue(body)]
        ELSE [ok |-> FALSE, v |-> 0]

\* the unit table without the micro sign U+00B5
ParseDurationUnit_NoMicroSign(u) ==
    CASE u = <<"n", "s">> -> Nanosecond
      [] u \in {<<"u", "s">>, <<"μ", "s">>} -> Microsecond
      [] u = <<"m", "s">> -> Millisecond
      [] u = <<"s">> -> Second
      [] u = <<"m">> -> Minute
      [] u = <<"h">> -> Hour
      [] OTHER -> UnitOf(0, 1)

\* the unit table of time.ParseDuration
ParseDurationUnit(u) ==
    CASE u = <<"n", "s">> -> Nanosecond
      [] u \in {<<"u", "s">>, <<"µ", "s">>, <<"μ", "s">>} -> Microsecond
      [] u = <<"m", "s">> -> Millisecond
      [] u = <<"s">> -> Second
      [] u = <<"m">> -> Minute
      [] u = <<"h">> -> Hour
      [] OTHER -> UnitOf(0, 1)

\* time.ParseDuration(number + unit) for a run of digits and a unit holding no
\* digit and no sign: the digits are the leading integer, one "." may follow
\* it, the bytes up to the next "." are the unit, and anything left is a
\* number without digits.  [ok, d]; d is 0 on error.
ParseDuration(number, unit) ==
    LET rest == IF unit # <<>> /\ unit[1] = "." THEN Tail(unit) ELSE unit
        u    == ParseDurationUnit(rest)
    IN  IF /\ number # <<>>
           /\ rest # <<>>
           /\ \A k \in 1..Len(rest) : rest[k] # "."
           /\ u.secs # 0
           /\ ~DurLess(MaxDuration, DurMulInt(DigitsValue(number), u))
        THEN [ok |-> TRUE, d |-> DurMulInt(DigitsValue(number), u)]
        ELSE [ok |-> FALSE, d |-> ZeroDur]

(***************************************************************************)
(* src/tparse.go: the index-scanning evaluator                             *)
(***************************************************************************)
\* what a call gives back: the time and the error returned, or a run-time
\* panic; exact is FALSE when a rounded float64 operation decided t
Returned(t, err) == [t |-> t, err |-> err, panic |-> FALSE, exact |-> TRUE]

Panicked == [t |-> ZeroTime, err |-> "nil", panic |-> TRUE, exact |-> TRUE]

Failed(r) == r.panic \/ r.err # "nil"

Succeeded(r) == ~r.panic /\ r.err = "nil"

\* the values calcDuration returns, the days left as they are if !positive
Signed_DaysNotNegated(positive, y, m, d, dur) ==
    [y |-> IF positive THEN y ELSE -y,
     m |-> IF positive THEN m ELSE -m,
     d |-> d,
     dur |-> IF positive THEN dur ELSE Wrap64(DurNeg(dur)),
     err |-> "nil"]

\* the values calcDuration returns, negated if !positive
Signed(positive, y, m, d, dur) ==
    [y |-> IF positive THEN y ELSE -y,
     m |-> IF positive THEN m ELSE -m,
     d |-> IF positive THEN d ELSE -d,
     dur |-> IF positive THEN dur ELSE Wrap64(DurNeg(dur)),
     err |-> "nil"]

\* the switch of calcDuration over the unit, for the number's value v.  In
\* the default case the error of time.ParseDuration is assigned to err and
\* not returned; on error the duration is 0.
calcSwitch(positive, v, number, unit) ==
    CASE unit \in {<<"d">>, <<"d", "a", "y">>, <<"d", "a", "y", "s">>} ->
            Signed(positive, 0, 0, v, ZeroDur)
      [] unit \in {<<"w">>, <<"w", "e", "e", "k">>, <<"w", "e", "e", "k", "s">>} ->
            Signed(positive, 0, 0, 7 * v, ZeroDur)
      [] unit \in {<<"m", "o">>, <<"m", "o", "n">>, <<"m", "o", "n", "t", "h">>,
                   <<"m", "o", "n", "t", "h", "s">>, <<"m", "t", "h">>, <<"m", "n">>} ->
            Signed(positive, 0, v, 0, ZeroDur)
      [] unit \in {<<"y">>, <<"y", "e", "a", "r">>, <<"y", "e", "a", "r", "s">>} ->
            Signed(positive, v, 0, 0, ZeroDur)
      [] unit \in {<<"s", "e", "c">>, <<"s", "e", "c", "o", "n", "d">>,
                   <<"s", "e", "c", "o", "n", "d", "s">>} ->
            Signed(positive, 0, 0, 0, Wrap64(DurMulInt(v, Second)))
      [] unit \in {<<"m", "i", "n">>, <<"m", "i", "n", "u", "t", "e">>,
                   <<"m", "i", "n", "u", "t", "e", "s">>} ->
            Signed(positive, 0, 0, 0, Wrap64(DurMulInt(v, Minute)))
      [] unit \in {<<"h", "r">>, <<"h", "o", "u", "r">>, <<"h", "o", "u", "r", "s">>} ->
            Signed(positive, 0, 0, 0, Wrap64(DurMulInt(v, Hour)))
      [] OTHER ->
            Signed(positive, 0, 0, 0, ParseDuration(number, unit).d)

\* the number of calcDuration, converted
calcValue(positive, a, number, unit) ==
    IF ~a.ok
    THEN [y |-> 0, m |-> 0, d |-> 0, dur |-> ZeroDur, err |-> "strconv.Atoi"]
    ELSE calcSwitch(positive, a.v, number, unit)

\* calcDuration(positive, number, unit): [y, m, d, dur, err]
calcDuration(positive, number, unit) ==
    calcValue(positive, Atoi(number), number, unit)

\* bar(value, positive, iNumber, iUnit, i)
bar(v, positive, iNumber, iUnit, i) ==
    calcDuration(positive, Slice(v, iNumber, iUnit), Slice(v, iUnit, i))

\* the locals of addDuration before the first rune
ScanInit ==
    [ty |-> 0, tm |-> 0, td |-> 0, tdur |-> ZeroDur,
     identifier |-> FALSE, positive |-> TRUE, iUnit |-> 0, iNumber |-> 0,
     startNumberNextRune |-> FALSE, err |-> "nil"]

\* the totals replaced by the last set, not added to
Accumulate_LastSetOnly(st, b) ==
    [st EXCEPT !.ty = b.y, !.tm = b.m, !.td = b.d, !.tdur = b.dur]

\* the totals after one more set
Accumulate(st, b) ==
    [st EXCEPT !.ty = @ + b.y, !.tm = @ + b.m, !.td = @ + b.d,
               !.tdur = Wrap64(DurAdd(@, b.dur))]

\* the second switch of the identifier branch: the sign of the next set
NextSign(st, r) ==
    CASE r = "+" -> [st EXCEPT !.positive = TRUE]
      [] r = "-" -> [st EXCEPT !.positive = FALSE]
      [] OTHER -> st

\* if setComplete { if i > 0 { ... } }, b being what bar returned
SetComplete(st, b, i, r) ==
    IF i > 0
    THEN IF b.err # "nil"
         THEN [st EXCEPT !.err = b.err]
         ELSE NextSign([Accumulate(st, b) EXCEPT !.iNumber = i], r)
    ELSE NextSign(st, r)

\* the identifier branch: a sign or a digit completes the set
ScanIdentifier(st, v, i, r) ==
    IF IsSign(r) \/ IsDigit(r)
    THEN SetComplete([st EXCEPT !.identifier = FALSE,
                                !.startNumberNextRune = IsSign(r)],
                     bar(v, st.positive, st.iNumber, st.iUnit, i), i, r)
    ELSE st

\* the number branch leaving iUnit where it was
ScanNumber_UnitNotMarked(st, i, r) ==
    CASE r = "+" -> [st EXCEPT !.positive = TRUE, !.startNumberNextRune = TRUE]
      [] r = "-" -> [st EXCEPT !.positive = FALSE, !.startNumberNextRune = TRUE]
      [] IsDigit(r) -> st
      [] OTHER -> [st EXCEPT !.identifier = TRUE]

\* the number branch
ScanNumber(st, i, r) ==
    CASE r = "+" -> [st EXCEPT !.positive = TRUE, !.startNumberNextRune = TRUE]
      [] r = "-" -> [st EXCEPT !.positive = FALSE, !.startNumberNextRune = TRUE]
      [] IsDigit(r) -> st
      [] OTHER -> [st EXCEPT !.identifier = TRUE, !.iUnit = i]

\* the body of the loop after iNumber is set
ScanRune(st, v, i, r) ==
    IF st.identifier THEN ScanIdentifier(st, v, i, r) ELSE ScanNumber(st, i, r)

\* one iteration of the loop over the runes: rune r at offset i
ScanStep(st, v, i, r) ==
    ScanRune(IF st.startNumberNextRune
             THEN [st EXCEPT !.iNumber = i, !.startNumberNextRune = FALSE]
             ELSE st,
             v, i, r)

\* the loop over the runes from offset i on; it is left at the first error
RECURSIVE Scan(_, _, _)
Scan(st, v, i) ==
    IF i >= Len(v) \/ st.err # "nil" THEN st
    ELSE Scan(ScanStep(st, v, i, v[i + 1]), v, i + 1)

\* return base.Add(tdur).AddDate(ty, tm, td), nil
Shift(b, tot) == AddDate(Add(b, tot.tdur), tot.ty, tot.tm, tot.td)

\* the last set, last being what bar returned for it
LastSet(b, st, last) ==
    IF last.err # "nil" THEN Returned(ZeroTime, last.err)
    ELSE Returned(Shift(b, Accumulate(st, last)), "nil")

\* addDuration after the loop; epoch is the zero time.Time
AfterScan(b, v, st) ==
    IF st.err # "nil" THEN Returned(ZeroTime, st.err)
    ELSE IF st.iNumber < st.iUnit /\ st.iUnit < Len(v)
         THEN LastSet(b, st, bar(v, st.positive, st.iNumber, st.iUnit, Len(v)))
         ELSE Returned(ZeroTime, "extra characters")

\* addDuration without the early return for the empty string
addDuration_NoEmptyCase(b, v) == AfterScan(b, v, Scan(ScanInit, v, 0))

\* addDuration(base, value)
addDuration(b, v) ==
    IF Len(v) = 0 THEN Returned(b, "nil") ELSE AfterScan(b, v, Scan(ScanInit, v, 0))

(***************************************************************************)
(* src/unnamed/part_005: the evaluator with decimal quantities             *)
(***************************************************************************)
Day == UnitOf(SecondsPerDay, 1)

Week == UnitOf(7 * SecondsPerDay, 1)

\* unitMap[unit]: [ok, u]
unitMap(unit) ==
    CASE unit = <<"n", "s">> -> [ok |-> TRUE, u |-> Nanosecond]
      [] unit \in {<<"u", "s">>, <<"µ", "s">>, <<"μ", "s">>} -> [ok |-> TRUE, u |-> Microsecond]
      [] unit = <<"m", "s">> -> [ok |-> TRUE, u |-> Millisecond]
      [] unit \in {<<"s">>, <<"s", "e", "c">>, <<"s", "e", "c", "o", "n", "d">>,
                   <<"s", "e", "c", "o", "n", "d", "s">>} -> [ok |-> TRUE, u |-> Second]
      [] unit \in {<<"m">>, <<"m", "i", "n">>, <<"m", "i", "n", "u", "t", "e">>,
                   <<"m", "i", "n", "u", "t", "e", "s">>} -> [ok |-> TRUE, u |-> Minute]
      [] unit \in {<<"h">>, <<"h", "r">>, <<"h", "o", "u", "r">>,
                   <<"h", "o", "u", "r", "s">>} -> [ok |-> TRUE, u |-> Hour]
      [] unit \in {<<"d">>, <<"d", "a", "y">>, <<"d", "a", "y", "s">>} -> [ok |-> TRUE, u |-> Day]
      [] unit \in {<<"w">>, <<"w", "e", "e", "k">>,
                   <<"w", "e", "e", "k", "s">>} -> [ok |-> TRUE, u |-> Week]
      [] OTHER -> [ok |-> FALSE, u |-> UnitOf(0, 1)]

MonthUnits ==
    {<<"m", "o">>, <<"m", "o", "n">>, <<"m", "o", "n", "t", "h">>,
     <<"m", "o", "n", "t", "h", "s">>, <<"m", "t", "h">>, <<"m", "n">>}

YearUnits == {<<"y">>, <<"y", "e", "a", "r">>, <<"y", "e", "a", "r", "s">>}

\* a float64 count of units is an integer count of 1/Scale units
\* math.Trunc(x)
Trunc(x) == IF x >= 0 THEN (x \div Scale) * Scale ELSE -(((-x) \div Scale) * Scale)

\* int(x) of a whole x
IntOf(x) == IF x >= 0 THEN x \div Scale ELSE -((-x) \div Scale)

\* x * float64(u) for a float64 count x of units
DurMulFloat(x, u) ==
    IF x >= 0 THEN DurMulFix(x \div Scale, x % Scale, u)
    ELSE DurNeg(DurMulFix((-x) \div Scale, (-x) % Scale, u))

\* is the decimal fraction fr/Scale a float64, so that no operation on it rounds
IsDyadic(fr) == (fr * (2 ^ FracDigits)) % Scale = 0

\* the locals of AddDuration before the first token
TokInit(s) ==
    [s |-> s, isNegative |-> FALSE, exp |-> 0, whole |-> 0, fraction |-> 0,
     totalYears |-> 0, totalMonths |-> 0, totalDays |-> 0, totalDuration |-> ZeroDur,
     exact |-> TRUE, err |-> "nil", panic |-> FALSE]

\* consume possible sign
ConsumeSign(st) ==
    CASE st.s[1] = "+" -> [st EXCEPT !.isNegative = FALSE, !.s = Tail(@)]
      [] st.s[1] = "-" -> [st EXCEPT !.isNegative = TRUE, !.s = Tail(@)]
      [] OTHER -> st

\* consume digits: the loop condition reads s[0] before every iteration, also
\* when nothing is left of s
RECURSIVE ConsumeDigits(_)
ConsumeDigits(st) ==
    IF st.s = <<>> THEN [st EXCEPT !.panic = TRUE]
    ELSE LET c == st.s[1]
         IN  IF ~(IsDigit(c) \/ c = ".") THEN st
             ELSE IF c = "."
                  THEN IF st.exp > 0
                       THEN [st EXCEPT !.err = "two decimal points"]
                       ELSE ConsumeDigits([st EXCEPT !.exp = 1, !.fraction = 0,
                                                     !.s = Tail(@)])
                  ELSE IF st.exp > 0
                       THEN ConsumeDigits([st EXCEPT !.exp = @ + 1,
                                                     !.fraction = 10 * @ + DigitVal(c),
                                                     !.s = Tail(@)])
                       ELSE ConsumeDigits([st EXCEPT !.whole = 10 * @ + DigitVal(c),
                                                     !.s = Tail(@)])

\* number: float64(whole) + float64(fraction) * 10^(1-exp), negated if
\* isNegative, as a count of 1/Scale
NumberOf(st) ==
    LET places == IF st.exp > 0 THEN st.exp - 1 ELSE 0
        fr     == IF places <= FracDigits
                  THEN st.fraction * Pow10(FracDigits - places)
                  ELSE st.fraction \div Pow10(places - FracDigits)
        x      == st.whole * Scale + fr
    IN  IF st.isNegative THEN -x ELSE x

NumberExact(st) ==
    LET places == IF st.exp > 0 THEN st.exp - 1 ELSE 0
    IN  /\ places <= FracDigits
        /\ IsDyadic(st.fraction * Pow10(FracDigits - places))

\* find end of unit: the length of the run of bytes that are no sign and no digit
RECURSIVE UnitEnd(_, _)
UnitEnd(s, i) ==
    IF i < Len(s) /\ ~IsSign(s[i + 1]) /\ ~IsDigit(s[i + 1])
    THEN UnitEnd(s, i + 1) ELSE i

\* the lookup of the unit and the addition to its total
AddToTotal(st, number, unit, um) ==
    IF um.ok
    THEN [st EXCEPT !.totalDuration = DurAdd(@, DurMulFloat(number, um.u))]
    ELSE CASE unit \in MonthUnits -> [st EXCEPT !.totalMonths = @ + number]
           [] unit \in YearUnits -> [st EXCEPT !.totalYears = @ + number]
           [] OTHER -> [st EXCEPT !.err = "unknown unit"]

\* the end of the iteration with the unit left in s
EndToken_UnitKept(st, i) ==
    IF st.err # "nil" THEN st ELSE [st EXCEPT !.whole = 0]

\* the end of the iteration with the sign forgotten as well
EndToken_SignReset(st, i) ==
    IF st.err # "nil" THEN st
    ELSE [st EXCEPT !.s = Drop(@, i), !.whole = 0, !.isNegative = FALSE]

\* the end of the iteration: s = s[i:]; whole = 0
EndToken(st, i) ==
    IF st.err # "nil" THEN st ELSE [st EXCEPT !.s = Drop(@, i), !.whole = 0]

\* the unit s[:i] of the token
TakeUnit(st, i) ==
    EndToken(AddToTotal([st EXCEPT !.exact = @ /\ NumberExact(st)], NumberOf(st),
                        Slice(st.s, 0, i), unitMap(Slice(st.s, 0, i))), i)

\* the iteration after the digits are consumed
AfterDigits(st) ==
    IF st.panic \/ st.err # "nil" THEN st ELSE TakeUnit(st, UnitEnd(st.s, 0))

\* one iteration of the loop over the tokens, s # ""
TokenStep(st) == AfterDigits(ConsumeDigits(ConsumeSign(st)))

\* for s != "" { ... }
RECURSIVE Tokens(_)
Tokens(st) ==
    IF st.s = <<>> \/ st.panic \/ st.err # "nil" THEN st
    ELSE Tokens(TokenStep(st))

\* the splits with the remainder of the months dropped, not turned into days
Cascade_DropMonthRemainder(st) ==
    LET yw == Trunc(st.totalYears)
        m1 == IF st.totalYears # 0
              THEN st.totalMonths + 12 * (st.totalYears - yw) ELSE st.totalMonths
        dw == Trunc(st.totalDays)
        du == IF st.totalDays # 0
              THEN DurAdd(st.totalDuration, DurMulFloat(st.totalDays - dw, Day))
              ELSE st.totalDuration
    IN  [st EXCEPT !.totalYears = yw, !.totalMonths = Trunc(m1), !.totalDays = dw,
                   !.totalDuration = du]

\* the three splits after the loop: years into months, months into days, days
\* into the duration
Cascade(st) ==
    LET yw == Trunc(st.totalYears)
        m1 == IF st.totalYears # 0
              THEN st.totalMonths + 12 * (st.totalYears - yw) ELSE st.totalMonths
        mw == Trunc(m1)
        d1 == IF m1 # 0 THEN st.totalDays + 30 * (m1 - mw) ELSE st.totalDays
        dw == Trunc(d1)
        du == IF d1 # 0
              THEN DurAdd(st.totalDuration, DurMulFloat(d1 - dw, Day))
              ELSE st.totalDuration
    IN  [st EXCEPT !.totalYears = yw, !.totalMonths = mw, !.totalDays = dw,
                   !.totalDuration = du]

\* the final combination: the calendar shift, then the duration
Combine(b, st) ==
    LET t1 == IF st.totalYears # 0 \/ st.totalMonths # 0 \/ st.totalDays # 0
              THEN AddDate(b, IntOf(st.totalYears), IntOf(st.totalMonths),
                           IntOf(st.totalDays))
              ELSE b
    IN  IF ~DurIsZero(st.totalDuration) THEN Add(t1, DurTrunc(st.totalDuration)) ELSE t1

\* AddDuration returning, with an error, the time shifted by the tokens read
\* before it
AddDuration_ErrShifted(b, s) ==
    IF Len(s) = 0 THEN Returned(b, "nil")
    ELSE LET st == Tokens(TokInit(s))
         IN  IF st.panic THEN Panicked
             ELSE Returned(Combine(b, Cascade(st)), st.err)

\* AddDuration after the loop
AfterTokens(b, tok) ==
    IF tok.panic THEN Panicked
    ELSE IF tok.err # "nil" THEN Returned(b, tok.err)
    ELSE [Returned(Combine(b, Cascade(tok)), "nil") EXCEPT !.exact = tok.exact]

\* AddDuration(base, s)
AddDuration(b, s) ==
    IF Len(s) = 0 THEN Returned(b, "nil") ELSE AfterTokens(b, Tokens(TokInit(s)))

(***************************************************************************)
(* src/unnamed/part_000: the evaluator with integer quantities             *)
(***************************************************************************)
\* the locals of AddDuration before the first token
TokInit_000(s) ==
    [s |-> s, isNegative |-> FALSE, number |-> 0,
     totalYears |-> 0, totalMonths |-> 0, totalDuration |-> ZeroDur,
     err |-> "nil", panic |-> FALSE]

\* consume digits: the loop condition reads s[0] before every iteration, also
\* when nothing is left of s
RECURSIVE ConsumeDigits_000(_)
ConsumeDigits_000(st) ==
    IF st.s = <<>> THEN [st EXCEPT !.panic = TRUE]
    ELSE IF ~IsDigit(st.s[1]) THEN st
    ELSE ConsumeDigits_000([st EXCEPT !.number = 10 * @ + DigitVal(st.s[1]),
                                      !.s = Tail(@)])

\* number * dur for an int64 number
DurMulSigned(k, u) ==
    Wrap64(IF k >= 0 THEN DurMulInt(k, u) ELSE DurNeg(DurMulInt(-k, u)))

\* the lookup of the unit and the addition to its total, then number = 0
AddToTotal_000(st, number, unit, um) ==
    IF um.ok
    THEN [st EXCEPT !.totalDuration = Wrap64(DurAdd(@, DurMulSigned(number, um.u))),
                    !.number = 0]
    ELSE CASE unit \in MonthUnits -> [st EXCEPT !.totalMonths = @ + number, !.number = 0]
           [] unit \in YearUnits -> [st EXCEPT !.totalYears = @ + number, !.number = 0]
           [] OTHER -> [st EXCEPT !.err = "unknown unit"]

\* the unit s[:i] of the token; s = s[i:]
TakeUnit_000(st, i) ==
    AddToTotal_000([st EXCEPT !.s = Drop(@, i)],
                   IF st.isNegative THEN -st.number ELSE st.number,
                   Slice(st.s, 0, i), unitMap(Slice(st.s, 0, i)))

\* one iteration of the loop over the tokens, after the digits are consumed
AfterDigits_000(st) ==
    IF st.panic THEN st ELSE TakeUnit_000(st, UnitEnd(st.s, 0))

\* for s != "" { ... }
RECURSIVE Tokens_000(_)
Tokens_000(st) ==
    IF st.s = <<>> \/ st.panic \/ st.err # "nil" THEN st
    ELSE Tokens_000(AfterDigits_000(ConsumeDigits_000(ConsumeSign(st))))

\* what AddDuration returns after the loop
Return_000(b, st) ==
    IF st.panic THEN Panicked
    ELSE IF st.err # "nil" THEN Returned(b, st.err)
    ELSE Returned(Add(AddDate(b, st.totalYears, st.totalMonths, 0), st.totalDuration),
                  "nil")

\* AddDuration(base, s) of src/unnamed/part_000
AddDuration_000(b, s) ==
    IF Len(s) = 0 THEN Returned(b, "nil") ELSE Return_000(b, Tokens_000(TokInit_000(s)))

(***************************************************************************)
(* The entry-point resolver                                                *)
(***************************************************************************)
\* the offset of the first byte of s at or after i that is no digit
RECURSIVE DigitsEnd(_, _)
DigitsEnd(s, i) ==
    IF i < Len(s) /\ IsDigit(s[i + 1]) THEN DigitsEnd(s, i + 1) ELSE i

\* strconv.ParseFloat(value, 64) on a decimal literal without exponent:
\* [sign] digits ["." digits] with a digit somewhere and nothing after it.
\* [ok, neg, int, frac]: the sign bit, the integer part and the digits of
\* the fraction.  The float64 keeps the sign of "-0".
ParseFloat(s) ==
    LET signed == s # <<>> /\ IsSign(s[1])
        body   == IF signed THEN Tail(s) ELSE s
        ie     == DigitsEnd(body, 0)
        dotted == ie < Len(body) /\ body[ie + 1] = "."
        fs     == IF dotted THEN ie + 1 ELSE ie
        fe     == DigitsEnd(body, fs)
    IN  IF fe = Len(body) /\ (ie > 0 \/ fe > fs)
        THEN [ok |-> TRUE, neg |-> signed /\ s[1] = "-",
              int |-> DigitsValue(Slice(body, 0, ie)), frac |-> Slice(body, fs, fe)]
        ELSE [ok |-> FALSE, neg |-> FALSE, int |-> 0, frac |-> <<>>]

\* epoch >= 0
NonNegative(e) == ~e.neg \/ (e.int = 0 /\ DigitsValue(e.frac) = 0)

\* the first nine digits of a fraction, as a count of nanoseconds
RECURSIVE NanosOfDigits(_, _)
NanosOfDigits(ds, place) ==
    IF ds = <<>> \/ place = 0 THEN 0
    ELSE DigitVal(ds[1]) * place + NanosOfDigits(Tail(ds), place \div 10)

\* the fraction scaled to microseconds
fractionToNanos_Micros(e) == NanosOfDigits(e.frac, NanosPerSecond \div 10000)

\* fractionToNanos(epoch - math.Trunc(epoch)) for epoch >= 0
fractionToNanos(e) == NanosOfDigits(e.frac, NanosPerSecond \div 10)

\* is the fraction a float64, so that epoch - trunc and its product are exact
FractionExact(e) ==
    /\ Len(e.frac) <= FracDigits
    /\ IsDyadic(DigitsValue(e.frac) * Pow10(FracDigits - Len(e.frac)))

\* what a resolver call gives back, and the step that produced it
Outcome(res, path) == [res |-> res, path |-> path]

\* the time a value matching the layout stands for
LayoutTime == Date(2006, 1, 2, 15, 4, 5)

\* time.Parse(layout, value): the layout parser is not part of the program; ok
\* tells whether the value conforms to the layout
TimeParse(ok) ==
    IF ok THEN Returned(LayoutTime, "nil") ELSE Returned(ZeroTime, "time.ParseError")

\* the epoch step: time.Unix(int64(trunc), int64(nanos)), nil
EpochTime(e) ==
    [Returned(Unix(e.int, fractionToNanos(e)), "nil") EXCEPT !.exact = FractionExact(e)]

\* the orders in which range may visit the keys of a map
Orders(d) ==
    {ord \in [1..Cardinality(DOMAIN d) -> DOMAIN d] :
        \A i, j \in 1..Cardinality(DOMAIN d) : ord[i] = ord[j] => i = j}

\* every key that is a prefix taken, whatever its length
Longer_AnyPrefix(v, k, matchKey) == HasPrefix(v, k)

\* is key k taken as the new match
Longer(v, k, matchKey) == HasPrefix(v, k) /\ Len(k) > Len(matchKey)

\* find longest matching key in dict: the keys from ord[i] on
RECURSIVE FindKey(_, _, _, _)
FindKey(v, ord, i, matchKey) ==
    IF i > Len(ord) THEN matchKey
    ELSE FindKey(v, ord, i + 1, IF Longer(v, ord[i], matchKey) THEN ord[i] ELSE matchKey)

\* ParseWithMap handing the whole value, key included, to the evaluator
ParseWithMap_KeyNotStripped(ok, v, d, ord) ==
    LET e        == ParseFloat(v)
        matchKey == FindKey(v, ord, 1, <<>>)
    IN  IF e.ok /\ NonNegative(e) THEN Outcome(EpochTime(e), "epoch")
        ELSE IF Len(matchKey) > 0
             THEN Outcome(addDuration(d[matchKey], v), "dict")
             ELSE Outcome(TimeParse(ok), "layout")

\* ParseWithMap taking the match whenever it is a key of the dictionary
ParseWithMap_EmptyMatch(ok, v, d, ord) ==
    LET e        == ParseFloat(v)
        matchKey == FindKey(v, ord, 1, <<>>)
    IN  IF e.ok /\ NonNegative(e) THEN Outcome(EpochTime(e), "epoch")
        ELSE IF matchKey \in DOMAIN d
             THEN Outcome(addDuration(d[matchKey], Drop(v, Len(matchKey))), "dict")
             ELSE Outcome(TimeParse(ok), "layout")

\* ParseWithMap(layout, value, dict) of src/tparse.go
ParseWithMap(ok, v, d, ord) ==
    LET e        == ParseFloat(v)
        matchKey == FindKey(v, ord, 1, <<>>)
    IN  IF e.ok /\ NonNegative(e) THEN Outcome(EpochTime(e), "epoch")
        ELSE IF Len(matchKey) > 0
             THEN Outcome(addDuration(d[matchKey], Drop(v, Len(matchKey))), "dict")
             ELSE Outcome(TimeParse(ok), "layout")

\* ParseWithMap going on to the epoch and the layout when the evaluator fails
ParseWithMap_v2_FallsBack(ok, v, d, ord) ==
    LET e        == ParseFloat(v)
        matchKey == FindKey(v, ord, 1, <<>>)
    IN  IF /\ Len(matchKey) > 0
           /\ Succeeded(AddDuration(d[matchKey], Drop(v, Len(matchKey))))
        THEN Outcome(AddDuration(d[matchKey], Drop(v, Len(matchKey))), "dict")
        ELSE IF e.ok /\ NonNegative(e) THEN Outcome(EpochTime(e), "epoch")
             ELSE Outcome(TimeParse(ok), "layout")

\* ParseWithMap(layout, value, dict) of src/unnamed/part_005
ParseWithMap_v2(ok, v, d, ord) ==
    LET e        == ParseFloat(v)
        matchKey == FindKey(v, ord, 1, <<>>)
    IN  IF Len(matchKey) > 0
        THEN Outcome(AddDuration(d[matchKey], Drop(v, Len(matchKey))), "dict")
        ELSE IF e.ok /\ NonNegative(e) THEN Outcome(EpochTime(e), "epoch")
             ELSE Outcome(TimeParse(ok), "layout")

EmptyDict == [k \in {} |-> ZeroTime]

\* Parse(layout, value) of src/tparse.go
Parse(ok, v) == ParseWithMap(ok, v, EmptyDict, <<>>)

\* Parse(layout, value) of src/unnamed/part_005
Parse_v2(ok, v) == ParseWithMap_v2(ok, v, EmptyDict, <<>>)

NowKey == <<"n", "o", "w">>

\* ParseNow(layout, value) of src/tparse.go, t being what time.Now() returns
ParseNow(ok, v, t) == ParseWithMap(ok, v, (NowKey :> t), <<NowKey>>)

\* ParseNow(layout, value) of src/unnamed/part_005
ParseNow_v2(ok, v, t) ==
    IF HasPrefix(v, NowKey) THEN Outcome(AddDuration(t, Drop(v, 3)), "now")
    ELSE ParseWithMap_v2(ok, v, EmptyDict, <<>>)

(***************************************************************************)
(* src/unnamed/part_001: ParseDict, the resolver that splits the value into *)
(* calendar units and a rest for time.ParseDuration                        *)
(***************************************************************************)
\* the character of a digit
DigitChar(n) == CHOOSE c \in Digits : DigitVal(c) = n

\* strconv.Itoa(n), n >= 0
RECURSIVE Itoa(_)
Itoa(n) == IF n < 10 THEN <<DigitChar(n)>> ELSE Itoa(n \div 10) \o <<DigitChar(n % 10)>>

\* the offset of the first byte of s at or after i that is a digit or "."
RECURSIVE UnitRunEnd(_, _)
UnitRunEnd(s, i) ==
    IF i < Len(s) /\ ~IsDigit(s[i + 1]) /\ s[i + 1] # "." THEN UnitRunEnd(s, i + 1) ELSE i

\* the digits fs of a fraction as a count of 1/Scale, the digits below it dropped
FracOf(fs) ==
    IF Len(fs) <= FracDigits THEN DigitsValue(fs) * Pow10(FracDigits - Len(fs))
    ELSE DigitsValue(SubSeq(fs, 1, FracDigits))

\* one token of time.ParseDuration: digits [0, ie), fraction [fs, fe), unit
\* [fe, ue) of s; acc is the sum of the tokens before it
RECURSIVE DurationTokens(_, _)
DurationToken(s, acc, ie, fs, fe, ue) ==
    IF \/ (ie = 0 /\ fe = fs)
       \/ ue = fe
       \/ ParseDurationUnit(Slice(s, fe, ue)).secs = 0
    THEN [ok |-> FALSE, d |-> ZeroDur, exact |-> TRUE]
    ELSE DurationTokens(Drop(s, ue),
                        [acc EXCEPT !.d = DurAdd(@, DurTrunc(DurMulFix(
                                              DigitsValue(Slice(s, 0, ie)),
                                              FracOf(Slice(s, fs, fe)),
                                              ParseDurationUnit(Slice(s, fe, ue))))),
                                    !.exact = @ /\ fe - fs <= FracDigits])

\* the fraction of the token, if a "." follows the digits [0, ie)
DurationFraction(s, acc, ie, fs) ==
    DurationToken(s, acc, ie, fs, DigitsEnd(s, fs), UnitRunEnd(s, DigitsEnd(s, fs)))

\* the loop of time.ParseDuration over the tokens of s
DurationTokens(s, acc) ==
    IF s = <<>> THEN acc
    ELSE DurationFraction(s, acc, DigitsEnd(s, 0),
                          IF DigitsEnd(s, 0) < Len(s) /\ s[DigitsEnd(s, 0) + 1] = "."
                          THEN DigitsEnd(s, 0) + 1 ELSE DigitsEnd(s, 0))

\* time.ParseDuration(s) for an s without a sign: [ok, d, exact]
ParseDurationString(s) ==
    IF s = <<"0">> THEN [ok |-> TRUE, d |-> ZeroDur, exact |-> TRUE]
    ELSE IF s = <<>> THEN [ok |-> FALSE, d |-> ZeroDur, exact |-> TRUE]
    ELSE DurationTokens(s, [ok |-> TRUE, d |-> ZeroDur, exact |-> TRUE])

\* the locals of ymd before the first rune
ymdInit ==
    [y |-> 0, m |-> 0, d |-> 0, accum |-> 0, unit |-> <<>>, unproc |-> <<>>,
     expectDigit |-> TRUE]

\* the closure unitComplete of ymd
unitComplete(st) ==
    CASE st.unit \in {<<"d">>, <<"d", "a", "y">>, <<"d", "a", "y", "s">>} ->
            [st EXCEPT !.d = @ + st.accum]
      [] st.unit \in {<<"w">>, <<"w", "e", "e", "k">>, <<"w", "e", "e", "k", "s">>} ->
            [st EXCEPT !.d = @ + 7 * st.accum]
      [] st.unit \in {<<"m", "o">>, <<"m", "o", "n">>, <<"m", "o", "n", "t", "h">>,
                      <<"m", "o", "n", "t", "h", "s">>, <<"m", "t", "h">>, <<"m", "n">>} ->
            [st EXCEPT !.m = @ + st.accum]
      [] st.unit \in {<<"y">>, <<"y", "e", "a", "r">>, <<"y", "e", "a", "r", "s">>} ->
            [st EXCEPT !.y = @ + st.accum]
      [] OTHER ->
            [st EXCEPT !.unproc = @ \o Itoa(st.accum) \o st.unit]

\* one iteration of the loop of ymd over the runes
ymdStep(st, r) ==
    IF IsDigit(r)
    THEN IF st.expectDigit
         THEN [st EXCEPT !.accum = @ * 10 + DigitVal(r)]
         ELSE [unitComplete(st) EXCEPT !.unit = <<>>, !.accum = DigitVal(r)]
    ELSE [st EXCEPT !.unit = @ \o <<r>>, !.expectDigit = FALSE]

\* the loop of ymd over the runes of v from offset i on
RECURSIVE ymdScan(_, _, _)
ymdScan(st, v, i) ==
    IF i >= Len(v) THEN st ELSE ymdScan(ymdStep(st, v[i + 1]), v, i + 1)

\* after the loop: the unit left over
ymdLast(st) == IF Len(st.unit) > 0 THEN unitComplete(st) ELSE st

\* ymd(value): [y, m, d, unproc]
ymd(v) == ymdLast(ymdScan(ymdInit, v, 0))

\* base.Add(time.Duration(int(duration)*direction)).AddDate(y, m, d) with
\* y, m and d negated if direction < 0
ShiftBy(b, positive, r, pd) ==
    IF ~pd.ok THEN Returned(b, "time.ParseDuration")
    ELSE [Returned(AddDate(Add(b, IF positive THEN pd.d ELSE DurNeg(pd.d)),
                           IF positive THEN r.y ELSE -r.y,
                           IF positive THEN r.m ELSE -r.m,
                           IF positive THEN r.d ELSE -r.d), "nil")
            EXCEPT !.exact = pd.exact]

\* what ymd left for time.ParseDuration, if anything
RestOf(r) ==
    IF Len(r.unproc) > 0 THEN ParseDurationString(r.unproc)
    ELSE [ok |-> TRUE, d |-> ZeroDur, exact |-> TRUE]

\* the body of the loop of ParseDict for the key k, a prefix of v
WithKey(v, k, b) ==
    IF Len(v) > Len(k)
    THEN IF ~IsSign(v[Len(k) + 1]) THEN Returned(b, "expected '+' or '-'")
         ELSE ShiftBy(b, v[Len(k) + 1] = "+", ymd(Drop(v, Len(k) + 1)),
                      RestOf(ymd(Drop(v, Len(k) + 1))))
    ELSE Returned(AddDate(Add(b, ZeroDur), 0, 0, 0), "nil")

\* the loop of ParseDict over the dictionary: the first key visited that is
\* a prefix of the value is taken
RECURSIVE FirstKey(_, _, _, _, _)
FirstKey(ok, v, d, ord, i) ==
    IF i > Len(ord) THEN Outcome(TimeParse(ok), "layout")
    ELSE IF HasPrefix(v, ord[i]) THEN Outcome(WithKey(v, ord[i], d[ord[i]]), "dict")
    ELSE FirstKey(ok, v, d, ord, i + 1)

\* is the value returned as an epoch, before the dictionary is looked at
IsEpoch(v) == ParseFloat(v).ok /\ NonNegative(ParseFloat(v))

\* the dictionary as ParseDict leaves it, t being what time.Now() returns:
\* if _, ok := dict["now"]; !ok { dict["now"] = time.Now() }
WithNow(v, d, t) ==
    IF IsEpoch(v) \/ NowKey \in DOMAIN d THEN d ELSE (NowKey :> t) @@ d

\* ParseDict(layout, value, dict) of src/unnamed/part_001, d being the
\* dictionary with its key "now" and ord the order range visits it in
ParseDict(ok, v, d, ord) ==
    IF IsEpoch(v) THEN Outcome(EpochTime(ParseFloat(v)), "epoch")
    ELSE FirstKey(ok, v, d, ord, 1)

(***************************************************************************)
(* Inputs                                                                  *)
(***************************************************************************)
\* the longest enumerated input string
MaxLen == 3

Alphabet == {"-", ".", "2", "5", "d", "m", "o", "y"}

\* every string over Alphabet of at most MaxLen characters
Enumerated == UNION {[1..n -> Alphabet] : n \in 0..MaxLen}

Years == <<"y", "e", "a", "r", "s">>

Months == <<"m", "o", "n", "t", "h", "s">>

Days == <<"d", "a", "y", "s">>

Hours == <<"h", "o", "u", "r", "s">>

Start == <<"s", "t", "a", "r", "t">>

EpochDigits == <<"1", "4", "4", "5", "5", "3", "5", "9", "8", "8">>

\* the spellings of the units, one set for each unit
Spellings ==
    {{<<"n", "s">>},
     {<<"u", "s">>, <<"µ", "s">>, <<"μ", "s">>},
     {<<"m", "s">>},
     {<<"s">>, <<"s", "e", "c">>, <<"s", "e", "c", "o", "n", "d">>,
      <<"s", "e", "c", "o", "n", "d", "s">>},
     {<<"m">>, <<"m", "i", "n">>, <<"m", "i", "n", "u", "t", "e">>,
      <<"m", "i", "n", "u", "t", "e", "s">>},
     {<<"h">>, <<"h", "r">>, <<"h", "o", "u", "r">>, <<"h", "o", "u", "r", "s">>},
     {<<"d">>, <<"d", "a", "y">>, <<"d", "a", "y", "s">>},
     {<<"w">>, <<"w", "e", "e", "k">>, <<"w", "e", "e", "k", "s">>},
     MonthUnits,
     YearUnits}

\* "5" and "-5" followed by each spelling
SpellingExprs ==
    {<<"5">> \o u : u \in UNION Spellings} \cup {<<"-", "5">> \o u : u \in UNION Spellings}

\* three tokens in every order
Orderings(toks) ==
    {toks[p[1]] \o toks[p[2]] \o toks[p[3]] : p \in Permutations(1..3)}

\* "+1h", "-1d", "+1m" of the tests
ClockAndDay == << <<"+", "1", "h">>, <<"-", "1", "d">>, <<"+", "1", "m">> >>

\* tokens of the three domains
ThreeDomains == << <<"+", "1", "h">>, <<"+", "1", "m", "o">>, <<"-", "2", "d">> >>

MinusAndPlus ==
    <<"-", "1", "2", "h", "+", "3", "4", "d", "a", "y", "-", "5", "6", "m">>

\* expressions whose tokens all carry a sign and an integer
SignedExprs ==
    Orderings(ClockAndDay) \cup Orderings(ThreeDomains)
        \cup {MinusAndPlus, <<"+", "1", "d", "+", "1", "d">>, <<"+", "2", "d">>}

\* "+N" and a calendar unit
CalendarExprs ==
    {<<"+", n>> \o u : n \in {"1", "5"}, u \in {<<"d">>, <<"w">>, <<"m", "o">>, <<"y">>}}

\* a token with or without a fraction, and an integer token after it
TwoTokens == {<<"1", ".", "5", "d", "2", "h">>, <<"1", "d", "2", "h">>}

\* a unit with no number in front of it
BareUnits == {<<"d">>, <<"+", "d">>, <<"1", "h", "+", "d">>}

\* a sign after a digit run, two signs in a row, a decimal point in a number
Malformed ==
    {<<"1", "+", "2", "d">>, <<"+", "-", "1", "d">>,
     <<"1", "d", "+", "+", "1", "h">>, <<"1", ".", "5", "d">>}

\* the expressions of the tests and of the documentation
NamedExprs ==
    SpellingExprs \cup SignedExprs \cup CalendarExprs \cup TwoTokens \cup BareUnits \cup
    Malformed \cup
    {<<"-">>, <<"+">>, <<"5">>, <<"1", "d", "2">>, <<"1", "d", "+">>,
     <<"5", "x", "y", "z">>, <<"1", "d", "5", "x", "y", "z">>,
     <<"+", "1", ".", "5">> \o Days \o <<"-", "3", ".", "2", "1">> \o Hours,
     <<"+", "2", ".", "5">> \o Years, <<"-", "2", ".", "5">> \o Years,
     <<"+", "2", ".", "5">> \o Months, <<"-", "2", ".", "5">> \o Months,
     <<"+", "2", ".", "5">> \o Days, <<"-", "2", ".", "5">> \o Days,
     <<"+", "1", "h", "-", "1", "d", "+", "1", "m">>,
     <<"-", "1", "0", "m", "s">>, <<"+", "0", ".", "2", "5", "d", "a", "y">>,
     <<"1", "w", "k">>, <<"1", "y", "r">>,
     <<"+", "1", "h", "+", "1", "m", "o">>, <<"-", "1", "h", "1", "d">>,
     <<"+", "1", "d", "-", "1", "h", "1", "m">>}

\* the values of the tests of the resolver
NamedValues ==
    {Start, Start \o <<"+", "1", "h">>, Start \o <<"+", "1", "w", "e", "e", "k">>,
     EpochDigits \o <<".", "5">>, <<"-">> \o EpochDigits \o <<".", "5">>,
     <<"0">>, <<"-", "0">>, <<"-", "0", ".", "0">>, <<"+", "5">>}

\* the values of the tests and of the documentation of ParseNow
NowValues ==
    {NowKey, NowKey \o <<"+", "1", "d">>, NowKey \o <<"-", "2", "s", "e", "c", "o", "n", "d">>,
     NowKey \o <<"-", "1", "0", "m", "s">>, NowKey \o <<"+", "1", "0", "m", "s">>,
     NowKey \o <<"+", "1", "h", "1", "d", "1", "m">>,
     NowKey \o <<"+", "1", "h", "-", "1", "d", "+", "1", "m">>,
     NowKey \o <<"-", "1", "2", "h", "+", "3", "4", "d", "a", "y", "-", "5", "6", "m">>,
     NowKey \o <<"+", "0", ".", "2", "5", "d", "a", "y">>,
     NowKey \o <<"h", "e", "r", "e">>}

\* a time as time.Now() returns it: in time.Local
InLocal(t) == [t EXCEPT !.loc = "Local"]

\* what the clock may read during a call: the day before (at a reading the
\* next day skips, and at noon) and the day of the change of the clocks, and
\* a day far from it
Clock ==
    {InLocal(Date(2003, 3, 29, 1, 30, 0)), InLocal(Date(2003, 3, 29, 12, 0, 0)),
     InLocal(Date(2003, 3, 30, 0, 30, 0)), InLocal(Date(2003, 6, 1, 15, 4, 5))}

T_2003_06_01 == Date(2003, 6, 1, 15, 4, 5)

T_2003_07_02 == Date(2003, 7, 2, 15, 4, 5)

T_2003_08_16 == Date(2003, 8, 16, 15, 4, 5)

T_2003_06_04 == Date(2003, 6, 4, 3, 4, 5)

T_2006_01_02 == Date(2006, 1, 2, 15, 4, 5)

T_2004_01_31 == Date(2004, 1, 31, 23, 59, 59)

\* the base times tried with every enumerated expression
Bases == {T_2003_06_01, T_2004_01_31}

\* the base times tried with the named expressions: those of the tests, in
\* UTC, and those a caller gets from time.Now()
NamedBases == Bases \cup {T_2003_07_02, T_2003_08_16, T_2003_06_04, T_2006_01_02} \cup Clock

\* the caller's dictionaries: none, one key a prefix of the other (over both
\* alphabets, and with a digit after the shorter key), the empty key, a key
\* that is a number
Dicts ==
    {EmptyDict,
     (<<"s">> :> T_2003_06_01) @@ (Start :> T_2003_07_02),
     (<<"o">> :> T_2003_06_01) @@ (<<"o", "m">> :> T_2003_07_02),
     (<<"o">> :> T_2003_06_01) @@ (<<"o", "2">> :> T_2003_07_02),
     (<<>> :> T_2003_08_16),
     (<<"2">> :> T_2003_06_04)}

NoOutcome == Outcome(Returned(ZeroTime, "nil"), "none")

\* no evaluator is in its loop
NoLocals == <<>>

Init ==
    /\ \/ /\ value \in Enumerated
          /\ base \in Bases
          /\ dict = EmptyDict
          /\ layoutOK = FALSE
       \/ /\ value \in NamedExprs
          /\ base \in NamedBases
          /\ dict = EmptyDict
          /\ layoutOK = FALSE
       \/ /\ value \in Enumerated \cup NamedValues
          /\ base = T_2003_06_01
          /\ dict \in Dicts
          /\ layoutOK \in BOOLEAN
       \/ /\ value \in NowValues
          /\ base = T_2003_06_01
          /\ dict = EmptyDict
          /\ layoutOK \in BOOLEAN
    /\ order = <<>>
    /\ now = ZeroTime
    /\ op = "idle"
    /\ out = NoOutcome
    /\ locals = NoLocals
    /\ iter = 0

(***************************************************************************)
(* One action per entry point: the call, made once on the inputs           *)
(***************************************************************************)
Call_addDuration ==
    /\ op = "idle"
    /\ op' = "addDuration"
    /\ out' = Outcome(addDuration(base, value), "evaluator")
    /\ UNCHANGED <<value, base, dict, layoutOK, order, now, locals, iter>>

Call_AddDuration ==
    /\ op = "idle"
    /\ op' = "AddDuration"
    /\ out' = Outcome(AddDuration(base, value), "evaluator")
    /\ UNCHANGED <<value, base, dict, layoutOK, order, now, locals, iter>>

Call_AddDuration_000 ==
    /\ op = "idle"
    /\ op' = "AddDuration_000"
    /\ out' = Outcome(AddDuration_000(base, value), "evaluator")
    /\ UNCHANGED <<value, base, dict, layoutOK, order, now, locals, iter>>

Call_ParseWithMap ==
    /\ op = "idle"
    /\ \E ord \in Orders(dict) :
          /\ order' = ord
          /\ out' = ParseWithMap(layoutOK, value, dict, ord)
    /\ op' = "ParseWithMap"
    /\ UNCHANGED <<value, base, dict, layoutOK, now, locals, iter>>

Call_ParseWithMap_v2 ==
    /\ op = "idle"
    /\ \E ord \in Orders(dict) :
          /\ order' = ord
          /\ out' = ParseWithMap_v2(layoutOK, value, dict, ord)
    /\ op' = "ParseWithMap_v2"
    /\ UNCHANGED <<value, base, dict, layoutOK, now, locals, iter>>

Call_Parse ==
    /\ op = "idle"
    /\ op' = "Parse"
    /\ out' = Parse(layoutOK, value)
    /\ UNCHANGED <<value, base, dict, layoutOK, order, now, locals, iter>>

Call_Parse_v2 ==
    /\ op = "idle"
    /\ op' = "Parse_v2"
    /\ out' = Parse_v2(layoutOK, value)
    /\ UNCHANGED <<value, base, dict, layoutOK, order, now, locals, iter>>

\* ParseNow reads the clock once, during the call
Call_ParseNow ==
    /\ op = "idle"
    /\ \E t \in Clock :
          /\ now' = t
          /\ out' = ParseNow(layoutOK, value, t)
    /\ op' = "ParseNow"
    /\ UNCHANGED <<value, base, dict, layoutOK, order, locals, iter>>

Call_ParseNow_v2 ==
    /\ op = "idle"
    /\ \E t \in Clock :
          /\ now' = t
          /\ out' = ParseNow_v2(layoutOK, value, t)
    /\ op' = "ParseNow_v2"
    /\ UNCHANGED <<value, base, dict, layoutOK, order, locals, iter>>

Next ==
    \/ Call_addDuration
    \/ Call_AddDuration
    \/ Call_AddDuration_000
    \/ Call_ParseWithMap
    \/ Call_ParseWithMap_v2
    \/ Call_Parse
    \/ Call_Parse_v2
    \/ Call_ParseNow
    \/ Call_ParseNow_v2

Spec == Init /\ [][Next]_vars

(***************************************************************************)
(* src/unnamed/part_001: its two entry points, called once on the inputs   *)
(***************************************************************************)
\* values with a key, a direction and calendar units, clock units or both
DictValues ==
    {Start \o <<"-", "1", "d">>, Start \o <<"+", "1", "d", "2", "h">>,
     Start \o <<"-", "1", ".", "5", "h">>, Start \o <<"+", "2", "m", "o", "1", "y">>,
     Start \o <<"1", "h">>, Start \o <<"+", "1", "d", "0", "5">>,
     Start \o <<"+", "1", "d", "+", "2", "h">>, Start \o <<"+", "3", "x">>}

\* a dictionary that has the key "now"
DictWithNow == (NowKey :> T_2006_01_02) @@ (Start :> T_2003_07_02)

Init_001 ==
    /\ value \in Enumerated \cup NamedValues \cup NowValues \cup DictValues
    /\ base = T_2003_06_01
    /\ dict \in Dicts \cup {DictWithNow}
    /\ layoutOK \in BOOLEAN
    /\ order = <<>>
    /\ now = ZeroTime
    /\ op = "idle"
    /\ out = NoOutcome
    /\ locals = NoLocals
    /\ iter = 0

\* ParseDict reads the clock if the value is no epoch and the dictionary has
\* no key "now", and stores the reading in the dictionary it was given
Call_ParseDict ==
    /\ op = "idle"
    /\ \E t \in Clock :
          /\ now' = IF WithNow(value, dict, t) = dict THEN now ELSE t
          /\ dict' = WithNow(value, dict, t)
          /\ \E ord \in Orders(WithNow(value, dict, t)) :
                /\ order' = ord
                /\ out' = ParseDict(layoutOK, value, WithNow(value, dict, t), ord)
    /\ op' = "ParseDict"
    /\ UNCHANGED <<value, base, layoutOK, locals, iter>>

\* Parse(layout, value) of part_001: ParseDict on a map of its own
Call_Parse_001 ==
    /\ op = "idle"
    /\ \E t \in Clock :
          /\ now' = IF IsEpoch(value) THEN now ELSE t
          /\ \E ord \in Orders(WithNow(value, EmptyDict, t)) :
                /\ order' = ord
                /\ out' = ParseDict(layoutOK, value, WithNow(value, EmptyDict, t), ord)
    /\ op' = "Parse_001"
    /\ UNCHANGED <<value, base, dict, layoutOK, locals, iter>>

Next_001 ==
    \/ Call_ParseDict
    \/ Call_Parse_001

Spec_001 == Init_001 /\ [][Next_001]_vars

(***************************************************************************)
(* Quantities near the ends of the int64 range, for the two evaluators     *)
(* that compute in int64                                                   *)
(***************************************************************************)
WideSigns == {<<>>, <<"+">>, <<"-">>}

\* 2562047 h and 153722867 min are the last that fit 2^63 - 1 ns
WideDigits ==
    {<<"2", "5", "6", "2", "0", "4", "7">>, <<"2", "5", "6", "2", "0", "4", "8">>,
     <<"5", "1", "2", "4", "0", "9", "6">>,
     <<"1", "5", "3", "7", "2", "2", "8", "6", "7">>,
     <<"1", "5", "3", "7", "2", "2", "8", "6", "8">>,
     <<"9", "9", "9", "9", "9", "9", "9", "9">>}

WideUnits ==
    {<<"h", "o", "u", "r", "s">>, <<"h", "r">>, <<"h">>, <<"m", "i", "n">>,
     <<"s", "e", "c">>}

\* one token: a sign or none, a number, a unit
WideExprs == {sg \o ds \o un : sg \in WideSigns, ds \in WideDigits, un \in WideUnits}

Init_64 ==
    /\ value \in WideExprs
    /\ base \in Bases
    /\ dict = EmptyDict
    /\ layoutOK = FALSE
    /\ order = <<>>
    /\ now = ZeroTime
    /\ op = "idle"
    /\ out = NoOutcome
    /\ locals = NoLocals
    /\ iter = 0

Next_64 ==
    \/ Call_addDuration
    \/ Call_AddDuration_000

Spec_64 == Init_64 /\ [][Next_64]_vars

(***************************************************************************)
(* The loops of the three evaluators, one iteration a step                 *)
(***************************************************************************)
Scanners == {"addDuration", "AddDuration", "AddDuration_000"}

\* where a call of evaluator e is while its loop runs
Running(e) ==
    CASE e = "addDuration" -> "in addDuration"
      [] e = "AddDuration" -> "in AddDuration"
      [] e = "AddDuration_000" -> "in AddDuration_000"

\* the locals of evaluator e before its loop
LocalsOf(e, v) ==
    CASE e = "addDuration" -> ScanInit
      [] e = "AddDuration" -> TokInit(v)
      [] e = "AddDuration_000" -> TokInit_000(v)

\* the condition of the loop of e before iteration i (from 0), an error or a
\* panic in the iteration before having left it
LoopOn(e, l, v, i) ==
    CASE e = "addDuration" -> i < Len(v) /\ l.err = "nil"
      [] e \in {"AddDuration", "AddDuration_000"} ->
            l.s # <<>> /\ ~l.panic /\ l.err = "nil"

\* one iteration of the loop of e
Iteration(e, l, v, i) ==
    CASE e = "addDuration" -> ScanStep(l, v, i, v[i + 1])
      [] e = "AddDuration" -> TokenStep(l)
      [] e = "AddDuration_000" -> AfterDigits_000(ConsumeDigits_000(ConsumeSign(l)))

\* what e returns once its loop is left
AfterLoop(e, b, v, l) ==
    CASE e = "addDuration" -> AfterScan(b, v, l)
      [] e = "AddDuration" -> AfterTokens(b, l)
      [] e = "AddDuration_000" -> Return_000(b, l)

Init_Loop ==
    /\ value \in Enumerated \cup NamedExprs
    /\ base = T_2003_06_01
    /\ dict = EmptyDict
    /\ layoutOK = FALSE
    /\ order = <<>>
    /\ now = ZeroTime
    /\ op = "idle"
    /\ out = NoOutcome
    /\ locals = NoLocals
    /\ iter = 0

\* the call: the empty string returns at once, any other enters the loop
Enter ==
    /\ op = "idle"
    /\ \E e \in Scanners :
          IF Len(value) = 0
          THEN /\ op' = e
               /\ out' = Outcome(Returned(base, "nil"), "evaluator")
               /\ UNCHANGED locals
          ELSE /\ op' = Running(e)
               /\ locals' = LocalsOf(e, value)
               /\ UNCHANGED out
    /\ UNCHANGED <<value, base, dict, layoutOK, order, now, iter>>

\* one iteration of the loop
Iterate ==
    /\ \E e \in Scanners :
          /\ op = Running(e)
          /\ LoopOn(e, locals, value, iter)
          /\ locals' = Iteration(e, locals, value, iter)
    /\ iter' = iter + 1
    /\ UNCHANGED <<value, base, dict, layoutOK, order, now, op, out>>

\* the loop is left and the call returns, or has panicked
Return ==
    /\ \E e \in Scanners :
          /\ op = Running(e)
          /\ ~LoopOn(e, locals, value, iter)
          /\ op' = e
          /\ out' = Outcome(AfterLoop(e, base, value, locals), "evaluator")
    /\ UNCHANGED <<value, base, dict, layoutOK, order, now, locals, iter>>

\* <<iNumber, iUnit, i>> of the call of bar that addDuration makes next:
\* in the iteration about to run, or after the loop
BarCalls ==
    IF op # "in addDuration" \/ locals.err # "nil" THEN {}
    ELSE IF iter < Len(value)
         THEN IF /\ locals.identifier
                 /\ IsSign(value[iter + 1]) \/ IsDigit(value[iter + 1])
                 /\ iter > 0
              THEN {<<IF locals.startNumberNextRune THEN iter ELSE locals.iNumber,
                      locals.iUnit, iter>>}
              ELSE {}
         ELSE IF locals.iNumber < locals.iUnit /\ locals.iUnit < Len(value)
              THEN {<<locals.iNumber, locals.iUnit, Len(value)>>}
              ELSE {}

Next_Loop ==
    \/ Enter
    \/ Iterate
    \/ Return

Spec_Loop == Init_Loop /\ [][Next_Loop]_vars

(***************************************************************************)
(* Properties                                                              *)
(***************************************************************************)
Evaluators == {"addDuration", "AddDuration"}

Resolvers == {"ParseWithMap", "ParseWithMap_v2", "Parse", "Parse_v2"}

\* the dictionary the entry point called was given
DictOf(o) == IF o \in {"Parse", "Parse_v2"} THEN EmptyDict ELSE dict

\* the keys of d a match can select: the non-empty prefixes of v
PrefixKeys(v, d) == {k \in DOMAIN d : HasPrefix(v, k) /\ Len(k) > 0}

\* Unix seconds of an instant
UnixSeconds(t) == t.day * SecondsPerDay + t.sec

Plus(t, secs) == Add(t, Norm(secs, 0, 0))

\* C1: a bare sign, "-" or "+", makes the evaluator return a non-nil error; it
\* neither succeeds nor panics.  (The original claim; AddDuration violates it.)
C1_BareSignIsError ==
    (op \in Evaluators /\ value \in {<<"-">>, <<"+">>})
        => (~out.res.panic /\ out.res.err # "nil")

UnknownUnitExprs ==
    {<<"5", "x", "y", "z">>, <<"2", "o">>, <<"5", "d", "d">>, <<"-", "2", "o">>}

\* C3: a token with an unknown unit makes the evaluator return a non-nil
\* error.  (The original claim; addDuration violates it.)
C3_UnknownUnitIsError ==
    (op \in Evaluators /\ value \in UnknownUnitExprs)
        => (~out.res.panic /\ out.res.err # "nil")

\* C4: an expression that ends in the middle of a token makes the evaluator
\* return an error; it never succeeds and never panics.  (The original claim;
\* AddDuration violates it.)
C4_EndsMidTokenIsError ==
    (op \in Evaluators /\ value \in {<<"5">>, <<"1", "d", "2">>, <<"1", "d", "+">>})
        => (~out.res.panic /\ out.res.err # "nil")

\* C5: "+1.5days-3.21hours" is accepted and is base plus 1.5 days minus 3.21
\* hours, i.e. plus 129600 s minus 11556 s.  (The original claim; AddDuration
\* violates it.)
C5_SeveralDecimals ==
    (/\ op = "AddDuration"
     /\ value = <<"+", "1", ".", "5">> \o Days \o <<"-", "3", ".", "2", "1">> \o Hours)
        => (Succeeded(out.res) /\ out.res.t = Plus(base, 129600 - 11556))

\* the totals of AddDuration when its loop ends
TotalsOf(s) == Tokens(TokInit(s))

\* what the splits took out of the calendar totals, in 1/Scale days of the
\* 12-month year and the 30-day month
TakenOut(st, c) ==
    (st.totalYears - c.totalYears) * 360 + (st.totalMonths - c.totalMonths) * 30
        + (st.totalDays - c.totalDays)

\* x lies between 0 and y
TowardZero(x, y) == (0 <= x /\ x <= y) \/ (y <= x /\ x <= 0)

\* no fraction is lost: the totals after the splits are whole, the years are
\* truncated toward zero, and what left the calendar totals, less than a day,
\* is in the duration
NoFractionLost(st, c) ==
    /\ c.totalYears = Trunc(c.totalYears)
    /\ c.totalMonths = Trunc(c.totalMonths)
    /\ c.totalDays = Trunc(c.totalDays)
    /\ TowardZero(c.totalYears, st.totalYears)
    /\ c.totalDuration = DurAdd(st.totalDuration, DurMulFloat(TakenOut(st, c), Day))
    /\ TakenOut(st, c) < Scale /\ TakenOut(st, c) > -Scale

\* does AddDuration map this base and expression to this time
Gives(b, s, t) ==
    (op = "AddDuration" /\ base = b /\ value = s) => (Succeeded(out.res) /\ out.res.t = t)

\* C6: a decimal quantity in a calendar unit loses no fraction (years split
\* into months by 12, months into days by 30, days into 24 h, toward zero),
\* and the six results of the tests: +2.5years, +2.5months, +2.5days and the
\* "-" forms that lead back.
C6_FractionalCascade ==
    /\ (op = "AddDuration" /\ Succeeded(out.res))
          => NoFractionLost(TotalsOf(value), Cascade(TotalsOf(value)))
    /\ Gives(T_2003_07_02, <<"+", "2", ".", "5">> \o Years, T_2006_01_02)
    /\ Gives(T_2006_01_02, <<"-", "2", ".", "5">> \o Years, T_2003_07_02)
    /\ Gives(T_2003_06_01, <<"+", "2", ".", "5">> \o Months, T_2003_08_16)
    /\ Gives(T_2003_08_16, <<"-", "2", ".", "5">> \o Months, T_2003_06_01)
    /\ Gives(T_2003_06_01, <<"+", "2", ".", "5">> \o Days, T_2003_06_04)
    /\ Gives(T_2003_06_04, <<"-", "2", ".", "5">> \o Days, T_2003_06_01)

C6_Witness ==
    /\ op = "AddDuration"
    /\ base = T_2003_08_16
    /\ value = <<"-", "2", ".", "5">> \o Months
    /\ out.res.exact
    /\ out.res.t = T_2003_06_01

\* the empty expression leaves the base as it is
EmptyIsIdentity ==
    (op \in Evaluators /\ value = <<>>) => out.res = Returned(base, "nil")

\* C7, as claimed: the empty expression is the identity, and ParseWithMap
\* with a value equal to a dictionary key returns that key's time.
C7_KeyAloneIsItsTime ==
    /\ EmptyIsIdentity
    /\ (op \in {"ParseWithMap", "ParseWithMap_v2"} /\ value \in DOMAIN dict)
          => out.res = Returned(dict[value], "nil")

\* C7, amended: the empty expression is the identity, and ParseWithMap with a
\* value equal to a non-empty dictionary key returns that key's time, except
\* that src/tparse.go, which tests for an epoch first, returns the epoch when
\* the key parses as a non-negative number.
C7_EmptyIsIdentity ==
    /\ EmptyIsIdentity
    /\ (op = "ParseWithMap_v2" /\ value \in DOMAIN dict /\ value # <<>>)
          => out = Outcome(Returned(dict[value], "nil"), "dict")
    /\ (/\ op = "ParseWithMap" /\ value \in DOMAIN dict /\ value # <<>>
        /\ ~(ParseFloat(value).ok /\ NonNegative(ParseFloat(value))))
          => out = Outcome(Returned(dict[value], "nil"), "dict")
    /\ (/\ op = "ParseWithMap" /\ value \in DOMAIN dict
        /\ ParseFloat(value).ok /\ NonNegative(ParseFloat(value)))
          => out.path = "epoch"

C7_Witness ==
    /\ op = "ParseWithMap"
    /\ value = Start
    /\ Start \in DOMAIN dict
    /\ out.path = "dict"
    /\ out.res = Returned(T_2003_07_02, "nil")

\* is the value taken as an epoch before anything else: always in
\* src/tparse.go and without a dictionary, and in part_005's ParseWithMap
\* when no key matches
EpochComesFirst == op = "ParseWithMap_v2" => PrefixKeys(value, dict) = {}

C9_LeadingMinusIsNoEpoch ==
    (op \in Resolvers /\ ParseFloat(value).ok /\ value[1] = "-")
        => /\ out.path # "epoch"
           /\ PrefixKeys(value, DictOf(op)) = {} =>
                 /\ out.path = "layout"
                 /\ ~layoutOK => out.res.err = "time.ParseError"

\* the longest key of d that is a prefix of v
LongestKey(v, d) ==
    CHOOSE k \in PrefixKeys(v, d) : \A k2 \in PrefixKeys(v, d) : Len(k2) <= Len(k)

\* C10: ParseWithMap resolves against the longest key that is a prefix of the
\* value, in whatever order the map is visited: every order gives the result
\* returned, the evaluator is given the longest key's time and the rest of
\* the value, and with {"s": A, "start": B} "start+1h" is B plus one hour.
C10_LongestPrefix ==
    /\ op = "ParseWithMap" =>
          /\ \A ord \in Orders(dict) : ParseWithMap(layoutOK, value, dict, ord) = out
          /\ out.path = "dict" =>
                out.res = addDuration(dict[LongestKey(value, dict)],
                                      Drop(value, Len(LongestKey(value, dict))))
    /\ op = "ParseWithMap_v2" =>
          /\ \A ord \in Orders(dict) : ParseWithMap_v2(layoutOK, value, dict, ord) = out
          /\ out.path = "dict" =>
                out.res = AddDuration(dict[LongestKey(value, dict)],
                                      Drop(value, Len(LongestKey(value, dict))))
    /\ (/\ op \in {"ParseWithMap", "ParseWithMap_v2"}
        /\ value = Start \o <<"+", "1", "h">>
        /\ DOMAIN dict = {<<"s">>, Start})
          => out.res = Returned(Plus(dict[Start], SecondsPerHour), "nil")

C10_Witness ==
    /\ op = "ParseWithMap"
    /\ value = Start \o <<"+", "1", "h">>
    /\ order = <<Start, <<"s">>>>
    /\ out.path = "dict"
    /\ out.res.t = Plus(T_2003_07_02, SecondsPerHour)

\* the evaluator of the file the entry point called is of
EvaluatorOf(o, t, e) ==
    IF o \in {"addDuration", "ParseWithMap", "Parse", "ParseNow"} THEN addDuration(t, e)
    ELSE AddDuration(t, e)

\* a non-empty expression, a sign or a digit first, that both evaluators accept
ValidExpr(t, e) ==
    /\ e # <<>>
    /\ IsSign(e[1]) \/ IsDigit(e[1])
    /\ Succeeded(addDuration(t, e))
    /\ Succeeded(AddDuration(t, e))

\* is the value taken as an epoch before the dictionary is looked at
TakenAsEpoch(o, v) ==
    o = "ParseWithMap" /\ ParseFloat(v).ok /\ NonNegative(ParseFloat(v))

OneWeek == <<"+", "1", "w", "e", "e", "k">>

SevenDays == <<"+", "7", "d">>

\* C11, as claimed: for every entry k -> T of the dictionary and every valid
\* expression e (the empty one is left to C7), ParseWithMap of k+e is the
\* evaluator applied to (T, e).
C11_AnyKeyPlusExpr ==
    op \in {"ParseWithMap", "ParseWithMap_v2"} =>
        \A k \in PrefixKeys(value, dict) :
            ValidExpr(dict[k], Drop(value, Len(k)))
                => out.res = EvaluatorOf(op, dict[k], Drop(value, Len(k)))

\* C11, amended: for the longest key k that is a prefix of the value, k -> T,
\* and every expression e, ParseWithMap of k+e is the evaluator applied to
\* (T, e) whatever the layout, unless src/tparse.go takes k+e for an epoch;
\* "start+1week" is T shifted by 7 days, the instant of "start+7d".
C11_KeyPlusExpr ==
    /\ (/\ op \in {"ParseWithMap", "ParseWithMap_v2"}
        /\ PrefixKeys(value, dict) # {}
        /\ ~TakenAsEpoch(op, value))
          => /\ out.path = "dict"
             /\ out.res = EvaluatorOf(op, dict[LongestKey(value, dict)],
                                      Drop(value, Len(LongestKey(value, dict))))
             /\ op = "ParseWithMap" =>
                   ParseWithMap(~layoutOK, value, dict, order) = out
             /\ op = "ParseWithMap_v2" =>
                   ParseWithMap_v2(~layoutOK, value, dict, order) = out
    /\ (/\ op \in {"ParseWithMap", "ParseWithMap_v2"}
        /\ value = Start \o OneWeek
        /\ Start \in DOMAIN dict)
          => /\ out.res = Returned(AddDate(dict[Start], 0, 0, 7), "nil")
             /\ out.res = EvaluatorOf(op, dict[Start], SevenDays)

C11_Witness ==
    /\ op = "ParseWithMap_v2"
    /\ value = Start \o OneWeek
    /\ out.path = "dict"
    /\ out.res.t = Plus(T_2003_07_02, 7 * SecondsPerDay)

\* the relative values Parse is documented to handle: "now", "now-10ms",
\* "now+10ms"
RelativeValues ==
    {NowKey, NowKey \o <<"-", "1", "0", "m", "s">>, NowKey \o <<"+", "1", "0", "m", "s">>}

\* C12: Parse itself handles "now", "now+DURATION" and "now-DURATION": it
\* returns a nil error and a time that is not the layout parser's.  (The
\* original claim; Parse of both files violates it.)
C12_ParseHandlesNow ==
    (op \in {"Parse", "Parse_v2"} /\ value \in RelativeValues)
        => (Succeeded(out.res) /\ out.path # "layout")

\* what Parse of the same file returns
ParseOf(o, ok, v) == IF o = "ParseNow" THEN Parse(ok, v) ELSE Parse_v2(ok, v)

\* C13: ParseNow of "now" followed by e returns the evaluator's result for
\* (t, e), t being the clock reading of the call: "now" gives t, "now+1d" t
\* plus 24 hours, "now-2second" t minus 2 seconds; any other value is
\* resolved as Parse resolves it.  (The original claim; ParseNow of
\* src/tparse.go violates it.)
C13_ParseNow ==
    op \in {"ParseNow", "ParseNow_v2"} =>
        /\ HasPrefix(value, NowKey) =>
              out.res = EvaluatorOf(op, now, Drop(value, Len(NowKey)))
        /\ value = NowKey => out.res = Returned(now, "nil")
        /\ value = NowKey \o <<"+", "1", "d">> =>
              out.res = Returned(Plus(now, 24 * SecondsPerHour), "nil")
        /\ value = NowKey \o <<"-", "2", "s", "e", "c", "o", "n", "d">> =>
              out.res = Returned(Plus(now, -2), "nil")
        /\ ~HasPrefix(value, NowKey) => out = ParseOf(op, layoutOK, value)

\* the spellings of the unit that u is a spelling of
SameUnit(u) == UNION {g \in Spellings : u \in g}

\* C14: all spellings of one unit are interchangeable: for every base and
\* every spelling u, "5"+u is accepted and gives what "5"+u2 gives for every
\* other spelling u2 of the same unit.
C14_SpellingsInterchangeable ==
    \A u \in UNION Spellings :
        (op \in Evaluators /\ value = <<"5">> \o u)
            => /\ Succeeded(out.res)
               /\ \A u2 \in SameUnit(u) :
                     out.res = EvaluatorOf(op, base, <<"5">> \o u2)

C14_Witness ==
    /\ op = "addDuration"
    /\ value = <<"5", "µ", "s">>
    /\ base \in Clock
    /\ out.res.t = Add(base, DurMulInt(5, Microsecond))

\* C15: every unit token of the README's table is accepted, "wk" and "yr"
\* included: "1wk" is evaluated as one week and "1yr" as one year, with a nil
\* error.  (The original claim; both evaluators violate it.)
C15_ReadmeTokens ==
    /\ (op \in Evaluators /\ value = <<"1", "w", "k">>)
          => (Succeeded(out.res) /\ out.res = EvaluatorOf(op, base, <<"1", "w">>))
    /\ (op \in Evaluators /\ value = <<"1", "y", "r">>)
          => (Succeeded(out.res) /\ out.res = EvaluatorOf(op, base, <<"1", "y">>))

\* the locals of addDuration when its loop ends
ScanOf(v) == Scan(ScanInit, v, 0)

\* the totals of addDuration when it returns: those of the loop and the last set
TotalsOf_v1(v) ==
    Accumulate(ScanOf(v), bar(v, ScanOf(v).positive, ScanOf(v).iNumber, ScanOf(v).iUnit, Len(v)))

\* the calendar shift first, then the duration
CalendarFirst(b, y, m, d, dur) == Add(AddDate(b, y, m, d), dur)

\* C16: the result is the base shifted by the whole years, months and days,
\* by calendar-aware addition, and only then by the accumulated duration.
\* (The original claim; addDuration of src/tparse.go violates it.)
C16_CalendarFirst ==
    /\ (op = "addDuration" /\ value # <<>> /\ Succeeded(out.res))
          => out.res.t = CalendarFirst(base, TotalsOf_v1(value).ty, TotalsOf_v1(value).tm,
                                       TotalsOf_v1(value).td, TotalsOf_v1(value).tdur)
    /\ (op = "AddDuration" /\ value # <<>> /\ Succeeded(out.res))
          => out.res.t = CalendarFirst(base,
                                       IntOf(Cascade(TotalsOf(value)).totalYears),
                                       IntOf(Cascade(TotalsOf(value)).totalMonths),
                                       IntOf(Cascade(TotalsOf(value)).totalDays),
                                       DurTrunc(Cascade(TotalsOf(value)).totalDuration))
    /\ (op \in Evaluators /\ value = <<"+", "1", "h", "+", "1", "m", "o">>
                           /\ base = T_2004_01_31)
          => out.res.t = Date(2004, 3, 3, 0, 59, 59)

\* C17: a sign applies only to the token it prefixes and not to a later token
\* without a sign: in "-1h1d" only the hour is subtracted, the day is added
\* as in "-1h+1d".  (The original claim; both evaluators violate it.)
C17_SignScopedToToken ==
    (op \in Evaluators /\ value = <<"-", "1", "h", "1", "d">>)
        => /\ Succeeded(out.res)
           /\ out.res = EvaluatorOf(op, base, <<"-", "1", "h", "+", "1", "d">>)

\* C17, amended: a sign applies to the token it prefixes and to every later
\* token up to the next sign: "-1h1d" subtracts the hour and the day, as
\* "-1h-1d" does, and "+1d-1h1m" is "+1d-1h-1m".
C17_SignCarries ==
    /\ (op \in Evaluators /\ value = <<"-", "1", "h", "1", "d">>)
          => /\ Succeeded(out.res)
             /\ out.res = EvaluatorOf(op, base, <<"-", "1", "h", "-", "1", "d">>)
    /\ (op \in Evaluators /\ value = <<"+", "1", "d", "-", "1", "h", "1", "m">>)
          => /\ Succeeded(out.res)
             /\ out.res = EvaluatorOf(op, base, <<"+", "1", "d", "-", "1", "h", "-", "1", "m">>)

C17_Witness ==
    /\ op = "AddDuration"
    /\ value = <<"-", "1", "h", "1", "d">>
    /\ base = T_2003_06_01
    /\ out.res = Returned(Plus(base, -(SecondsPerDay + SecondsPerHour)), "nil")

\* is the value one of the orders of the tokens, and the result that of
\* every other order
OrderFree(toks) ==
    (op \in Evaluators /\ value \in Orderings(toks))
        => /\ Succeeded(out.res)
           /\ \A e \in Orderings(toks) : out.res = EvaluatorOf(op, base, e)

\* C18: when every token has its own sign and an integer quantity the result
\* depends only on the signed sums of the domains: every order of the tokens
\* gives the same result, "+1d+1d" gives what "+2d" gives, "-12h+34day-56m"
\* is the base plus 34 days minus 12 hours and 56 minutes and "+1h-1d+1m"
\* the base minus 1 day plus 1 hour and 1 minute (bases in UTC, as in the
\* tests).
C18_SumsOnly ==
    /\ OrderFree(ClockAndDay)
    /\ OrderFree(ThreeDomains)
    /\ (op \in Evaluators /\ value = <<"+", "1", "d", "+", "1", "d">>)
          => out.res = EvaluatorOf(op, base, <<"+", "2", "d">>)
    /\ (op \in Evaluators /\ value = MinusAndPlus /\ base.loc = "UTC")
          => out.res = Returned(Plus(base, 34 * SecondsPerDay - 12 * SecondsPerHour
                                              - 56 * SecondsPerMinute), "nil")
    /\ (op \in Evaluators /\ value \in Orderings(ClockAndDay) /\ base.loc = "UTC")
          => out.res = Returned(Plus(base, SecondsPerHour + SecondsPerMinute
                                              - SecondsPerDay), "nil")

C18_Witness ==
    /\ op = "addDuration"
    /\ value = <<"-", "2", "d", "+", "1", "m", "o", "+", "1", "h">>
    /\ base = T_2004_01_31
    /\ out.res.t = Date(2004, 2, 28, 0, 59, 59)

DayUnits == {<<"d">>, <<"d", "a", "y">>, <<"d", "a", "y", "s">>}

WeekUnits == {<<"w">>, <<"w", "e", "e", "k">>, <<"w", "e", "e", "k", "s">>}

\* the evaluator called added days to its day total and nothing to its
\* duration total, and shifted the base by that many calendar days
InDayDomain(days) ==
    /\ Succeeded(out.res)
    /\ out.res.t = AddDate(base, 0, 0, days)
    /\ op = "addDuration" =>
          (TotalsOf_v1(value).td = days /\ TotalsOf_v1(value).tdur = ZeroDur)
    /\ op = "AddDuration" =>
          /\ TotalsOf(value).totalDays = days * Scale
          /\ TotalsOf(value).totalDuration = ZeroDur

\* C19: day and week tokens belong to the calendar-day domain: "5d" adds 5
\* and "5w" adds 35 to the day total, nothing to the duration total, and the
\* base is shifted by calendar-aware day addition.  (The original claim;
\* AddDuration of part_005 violates it.)
C19_DaysAreCalendarDays ==
    /\ \A u \in DayUnits :
          (op \in Evaluators /\ value = <<"5">> \o u) => InDayDomain(5)
    /\ \A u \in WeekUnits :
          (op \in Evaluators /\ value = <<"5">> \o u) => InDayDomain(35)

\* "-Nu" for "+Nu"
Negated(e) == <<"-">> \o Tail(e)

\* the evaluator called on "+Nu" succeeded, and called again on its result
\* with "-Nu" it returns the base
BackToBase ==
    /\ Succeeded(out.res)
    /\ Succeeded(EvaluatorOf(op, out.res.t, Negated(value)))
    /\ EvaluatorOf(op, out.res.t, Negated(value)).t = base

\* the day of the month of t in its location
DayOfMonth(t) == CivilFromDays(WallDay(t)).d

\* C20, as claimed: for every base, every integer N and every calendar unit
\* u, "+Nu" and then "-Nu" on the result returns the base.
C20_RoundTrip ==
    (op \in Evaluators /\ value \in CalendarExprs) => BackToBase

\* C20, amended: "+Nu" and then "-Nu" returns the base for day and week on
\* every base in UTC (with AddDuration of part_005, which counts 24 hours, on
\* every base), and for month and year on every base in UTC whose day of the
\* month is at most 28.
C20_RoundTripWhereDateExists ==
    /\ (/\ op \in Evaluators /\ value \in CalendarExprs
        /\ Drop(value, 2) \in {<<"d">>, <<"w">>}
        /\ op = "addDuration" => base.loc = "UTC")
          => BackToBase
    /\ (/\ op \in Evaluators /\ value \in CalendarExprs
        /\ Drop(value, 2) \in {<<"m", "o">>, <<"y">>}
        /\ base.loc = "UTC"
        /\ DayOfMonth(base) <= 28)
          => BackToBase

C20_Witness ==
    /\ op = "addDuration"
    /\ value = <<"+", "5", "w">>
    /\ base = T_2004_01_31
    /\ out.res.t = Date(2004, 3, 6, 23, 59, 59)
    /\ BackToBase

\* C21: a value that parses as a non-negative number is returned as a Unix
\* epoch even when a key of the dictionary is a prefix of it; the dictionary
\* is consulted only when the value is no such number.  (The original claim;
\* ParseWithMap of part_005 violates it.)
C21_EpochBeforeDict ==
    /\ (/\ op \in {"ParseWithMap", "ParseWithMap_v2"}
        /\ ParseFloat(value).ok
        /\ NonNegative(ParseFloat(value)))
          => /\ out.path = "epoch"
             /\ out.res = EpochTime(ParseFloat(value))
    /\ (op \in {"ParseWithMap", "ParseWithMap_v2"} /\ out.path = "dict")
          => ~(ParseFloat(value).ok /\ NonNegative(ParseFloat(value)))

\* C22: no resolver entry point modifies the dictionary it is given: after
\* the call, with or without error, the dictionary has the keys and values it
\* had before.  (The original claim; ParseDict of part_001 violates it.)
C22_DictUnchanged == [][dict' = dict]_vars

\* C23: ParseWithMap takes one path and never falls back from it: for a value
\* that is no epoch and has a matching key, the time and the error returned
\* are the evaluator's, whether it fails or not; with no matching key (the
\* dictionary may be nil or empty) they are those of time.Parse(layout, value).
C23_OnePath ==
    /\ (/\ op \in Resolvers
        /\ ~IsEpoch(value)
        /\ PrefixKeys(value, DictOf(op)) # {})
          => /\ out.path = "dict"
             /\ out.res = EvaluatorOf(op, dict[LongestKey(value, dict)],
                                      Drop(value, Len(LongestKey(value, dict))))
    /\ (/\ op \in Resolvers
        /\ ~IsEpoch(value)
        /\ PrefixKeys(value, DictOf(op)) = {})
          => /\ out.path = "layout"
             /\ out.res = TimeParse(layoutOK)
             /\ ~layoutOK => out.res.err = "time.ParseError"

C23_Witness ==
    /\ op = "ParseWithMap"
    /\ layoutOK
    /\ value = <<"o", "-">>
    /\ <<"o">> \in DOMAIN dict
    /\ out.path = "dict"
    /\ out.res = Returned(ZeroTime, "extra characters")

\* C24: the magnitude of a token is computed from its own digits only; the
\* integer part, the fraction digits and the decimal exponent an earlier
\* token left behind do not affect it: in "1.5d2h" the second token adds
\* exactly 2 hours to what "1.5d" gives.  (The original claim; AddDuration of
\* part_005 violates it.)
C24_NumberScopedToToken ==
    \A e \in TwoTokens :
        (op = "AddDuration" /\ value = e) =>
            /\ Succeeded(out.res)
            /\ out.res.t = Plus(AddDuration(base, SubSeq(e, 1, Len(e) - 2)).t,
                                2 * SecondsPerHour)

\* a unit starts at the beginning of v or right after a sign
HasBareUnit(v) ==
    \E i \in 1..Len(v) :
        /\ ~IsDigit(v[i]) /\ ~IsSign(v[i]) /\ v[i] # "."
        /\ i = 1 \/ IsSign(v[i - 1])

\* C25: every token must have a digit: for an expression with a unit that
\* has no number in front of it, with or without a sign ("d", "+d", "1h+d"),
\* AddDuration returns an error; the unit is not taken as a zero quantity.
\* (The original claim; AddDuration of part_005 and of part_000 violate it.)
C25_UnitNeedsNumber ==
    (op \in {"AddDuration", "AddDuration_000"} /\ HasBareUnit(value))
        => (~out.res.panic /\ out.res.err # "nil")

\* is v a concatenation of one or more tokens [sign] digits unit, the unit
\* being the run of bytes up to the next sign or digit and a known spelling
RECURSIVE IsTokens(_)
IsTokens(v) ==
    LET body == IF v # <<>> /\ IsSign(v[1]) THEN Tail(v) ELSE v
        ie   == DigitsEnd(body, 0)
        ue   == ie + UnitEnd(Drop(body, ie), 0)
    IN  /\ ie > 0
        /\ ue > ie
        /\ Slice(body, ie, ue) \in UNION Spellings
        /\ ue = Len(body) \/ IsTokens(Drop(body, ue))

\* C26: addDuration of src/tparse.go returns an error for every expression
\* that is not a concatenation of [sign] digits unit tokens, as for a sign
\* right after a digit run ("1+2d"), two signs in a row ("+-1d", "1d++1h")
\* and a decimal point in a number ("1.5d"); nothing of the input is dropped
\* or read as something else.  (The original claim; addDuration violates it.)
C26_RejectsMalformed ==
    (op = "addDuration" /\ value # <<>> /\ ~IsTokens(value))
        => out.res.err # "nil"

\* an iteration of the token loop that goes on to another one has consumed
\* at least one byte of s
Consuming ==
    (op \in {"in AddDuration", "in AddDuration_000"} /\ op' = op)
        => \/ Len(locals'.s) < Len(locals.s)
           \/ locals'.panic
           \/ locals'.err # "nil"

\* C28: AddDuration terminates: every iteration of its token loop consumes
\* at least one byte of what is left of s or is the last one (it returns, or
\* panics), so the loop runs at most len(s) times.
C28_LoopConsumes ==
    /\ [][Consuming]_vars
    /\ [](op \in {"in AddDuration", "in AddDuration_000"} => iter <= Len(value))

C28_Witness ==
    /\ op = "in AddDuration"
    /\ value = MinusAndPlus
    /\ iter = 3
    /\ locals.s = <<>>
    /\ locals.err = "nil"

\* C29: with dict = {"": T} ParseWithMap, in both versions, never takes the
\* empty key as a match: a value that is not a number is handed to the
\* layout parser, whose result is returned, and no result has T as its base.
C29_EmptyKeyNeverMatches ==
    (op \in {"ParseWithMap", "ParseWithMap_v2"} /\ dict = (<<>> :> T_2003_08_16)) =>
        /\ out.path # "dict"
        /\ ~ParseFloat(value).ok => out = Outcome(TimeParse(layoutOK), "layout")

\* a call with the empty key in the dictionary and an expression the
\* evaluator would accept, handed to the layout parser
C29_Witness ==
    /\ op = "ParseWithMap"
    /\ dict = (<<>> :> T_2003_08_16)
    /\ value = <<"-", "2", "d">>
    /\ out.path = "layout"

\* C30: at every call of bar(value, positive, iNumber, iUnit, i) made by
\* addDuration, in the loop and after it,
\* 0 <= iNumber <= iUnit < i <= len(value).
C30_BarInRange ==
    \A c \in BarCalls :
        /\ 0 <= c[1]
        /\ c[1] <= c[2]
        /\ c[2] < c[3]
        /\ c[3] <= Len(value)

\* "-12h+34day-56m" at the "+": the loop is about to call bar for "12", "h"
C30_Witness ==
    /\ op = "in addDuration"
    /\ value = MinusAndPlus
    /\ iter = 4
    /\ BarCalls = {<<1, 3, 4>>}

\* the expression without its leading sign
Unsigned(v) == IF v # <<>> /\ IsSign(v[1]) THEN Tail(v) ELSE v

\* the quantity of the first token of v times the length of its unit does
\* not fit 2^63 - 1 nanoseconds
TokenOverflows(v) ==
    /\ unitMap(Drop(Unsigned(v), DigitsEnd(Unsigned(v), 0))).ok
    /\ DurLess(MaxDuration,
               DurMulInt(DigitsValue(Slice(Unsigned(v), 0, DigitsEnd(Unsigned(v), 0))),
                         unitMap(Drop(Unsigned(v), DigitsEnd(Unsigned(v), 0))).u))

\* C27: a token whose quantity times the length of its unit does not fit
\* the 64-bit integer range makes the evaluator return an error, never a
\* time computed from a wrapped value.
C27_OverflowIsError ==
    (op \in {"addDuration", "AddDuration_000"} /\ TokenOverflows(value)) =>
        out.res.err # "nil"

====
